---- MODULE Spec2Model ----
(***************************************************************************)
(* A model of the university chatbot's retrieval-augmented answer pipeline *)
(*   src/app.py            admissions RAG chain and follow-up suggester    *)
(*   src/chatbot_script.py EnhancedSyllabusRAGChatbot (course chatbot)     *)
(* Text is modelled as a sequence of pieces: a piece is one character, or  *)
(* a literal fragment of a template.  The external collaborators (the      *)
(* retriever, the Generator, the embedding model, the vector index) are    *)
(* modelled by the outcomes their calls can have.                          *)
(***************************************************************************)
EXTENDS Integers, Sequences, FiniteSets, TLC

(***************************************************************************)
(* Bounds of the model                                                     *)
(***************************************************************************)
\* longest chat history handed to generate_followup_questions
MaxHist == 2

\* most course records in one syllabus_data.json
MaxCourses == 2
\* most parts a query is put together from
MaxParts == 2
\* most collections created in one run
MaxRebuilds == 2
\* largest n_results asked of the index
MaxK == 3

VARIABLES
    vector_store_retriever,  \* app.py global: "None" or "retriever"
    is_rag_initialized,      \* app.py global
    fq,                      \* the last generate_followup_questions call
    irc,                     \* how the last initialize_rag_chain call ended
    chunks_data,             \* EnhancedSyllabusRAGChatbot.chunks_data
    faq_data,                \* .faq_data
    concept_mapping,         \* .concept_mapping (ordered: <<[key, courses]>>)
    course_details,          \* .course_details  (ordered: <<[key, course]>>)
    semester_course_map,     \* .semester_course_map (ordered: <<[key, courses]>>)
    ld,                      \* the load_data call of this instance
    eq,                      \* the enhance_query call under observation
    collection,              \* .collection: the handle, or none
    store,                   \* the collections of the chromadb client
    nextUid,                 \* identities given to created collections
    rb,                      \* the create_enhanced_vector_store activation
    ch,                      \* the chat / retrieve_context activation
    rr,                      \* the last get_rag_response call
    course_chatbots,         \* integrated_main.py global: the chatbot cache
    http                     \* the last response of an HTTP handler

admissionsVars == <<vector_store_retriever, is_rag_initialized, fq, irc>>

tableVars == <<chunks_data, faq_data, concept_mapping, course_details,
               semester_course_map>>

courseVars == <<chunks_data, faq_data, concept_mapping, course_details,
                semester_course_map, ld, eq, collection, store, nextUid, rb, ch>>

serverVars == <<rr, course_chatbots, http>>

vars == <<vector_store_retriever, is_rag_initialized, fq, irc, chunks_data, faq_data,
          concept_mapping, course_details, semester_course_map, ld, eq,
          collection, store, nextUid, rb, ch, rr, course_chatbots, http>>

(***************************************************************************)
(* src/app.py : the follow-up suggester                                    *)
(***************************************************************************)
get_default_questions ==
    << "What courses are offered in Engineering?",
       "What is the fee for an MBA?",
       "What are the eligibility criteria for B.Tech?",
       "Tell me about the scholarship policy",
       "How do I apply for a Ph.D.?" >>

\* A chat turn is a mapping from some of the keys "type", "message" to
\* strings (List[Dict[str, str]]: the keys are not validated).
TurnShapes ==
    { [type |-> "user", message |-> "fees?"],
      [type |-> "user", message |-> ""],
      [type |-> "ai",   message |-> "answer"],
      [type |-> "user"],
      [message |-> "hello"] }

RECURSIVE SeqsUpTo(_, _)
SeqsUpTo(S, n) ==
    IF n = 0 THEN { <<>> }
    ELSE LET shorter == SeqsUpTo(S, n - 1)
         IN  shorter \cup { Append(s, x) : s \in shorter, x \in S }

Histories == SeqsUpTo(TurnShapes, MaxHist)

\* Mutant of last_user_message: the type filter is dropped, the most recent
\* turn of any type supplies the message.
last_message_any_type(chat_history, i) ==
    IF i = 0 THEN [raised |-> FALSE, found |-> FALSE, message |-> ""]
    ELSE IF "message" \notin DOMAIN chat_history[i]
         THEN [raised |-> TRUE, found |-> FALSE, message |-> ""]
         ELSE [raised |-> FALSE, found |-> TRUE, message |-> chat_history[i]["message"]]

\* next((item['message'] for item in reversed(chat_history)
\*       if item['type'] == 'user'), None)
\* i is the position reached by reversed(); a missing key raises KeyError.
RECURSIVE last_user_message(_, _)
last_user_message(chat_history, i) ==
    IF i = 0 THEN [raised |-> FALSE, found |-> FALSE, message |-> ""]
    ELSE LET item == chat_history[i]
         IN  IF "type" \notin DOMAIN item
             THEN [raised |-> TRUE, found |-> FALSE, message |-> ""]
             ELSE IF item["type"] = "user"
                  THEN IF "message" \notin DOMAIN item
                       THEN [raised |-> TRUE, found |-> FALSE, message |-> ""]
                       ELSE [raised |-> FALSE, found |-> TRUE,
                             message |-> item["message"]]
                  ELSE last_user_message(chat_history, i - 1)

\* The Generator's reply is a sequence of lexical tokens.
T(k, v) == [k |-> k, v |-> v]
LBR == T("lbr", "[")
RBR == T("rbr", "]")
COMMA == T("comma", ",")
Str(v) == T("str", v)
Num(v) == T("num", v)
Name(v) == T("name", v)

GeneratorReplies ==
    { <<LBR, Str("Q1?"), COMMA, Str("Q2?"), COMMA, Str("Q3?"), COMMA, Str("Q4?"), RBR>>,
      <<LBR, Str("Q1?"), COMMA, Str("Q2?"), COMMA, Str("Q3?"), COMMA, Str("Q4?"), COMMA, RBR>>,
      <<LBR, Str("Q1?"), COMMA, Str("Q2?"), COMMA, Str("Q3?"), COMMA, Str("Q4?"), COMMA,
        Str("Q5?"), RBR>>,
      <<LBR, Str("Q1?"), RBR>>,
      <<LBR, RBR>>,
      <<LBR, Str("Q1?"), COMMA, Num("2"), COMMA, Str("Q3?"), COMMA, Str("Q4?"), RBR>>,
      <<LBR, Str("Q1?"), COMMA, Name("question"), RBR>>,
      <<LBR, Str("Q1?"), Str("Q2?"), RBR>> ,
      <<LBR, Str("Q1?"), COMMA, Str("Q2?")>>,
      <<LBR, COMMA, RBR>>,
      <<Str("Q1?")>>,
      <<Num("4")>>,
      <<Name("Here"), Name("are"), Name("questions")>>,
      <<>> }

\* ast.literal_eval restricted to flat list, string and number literals.
\* ParseItems reads "item (, item)* [,] ]" from position i on.
Parsed(kind, items, err) == [kind |-> kind, items |-> items, err |-> err]

RECURSIVE ParseItems(_, _, _, _)
ParseItems(toks, i, items, wantItem) ==
    IF i > Len(toks) THEN Parsed("error", <<>>, "SyntaxError")
    ELSE LET t == toks[i]
         IN  IF t.k = "rbr"
             THEN IF i = Len(toks) THEN Parsed("list", items, "")
                  ELSE Parsed("error", <<>>, "SyntaxError")
             ELSE IF wantItem
                  THEN IF t.k \in {"str", "num", "name"}
                       THEN ParseItems(toks, i + 1, Append(items, t), FALSE)
                       ELSE Parsed("error", <<>>, "SyntaxError")
                  ELSE IF t.k = "comma"
                       THEN ParseItems(toks, i + 1, items, TRUE)
                       ELSE IF t.k = "str" /\ items[Len(items)].k = "str"
                            \* adjacent string literals are concatenated
                            THEN ParseItems(toks, i + 1,
                                     [items EXCEPT ![Len(items)] =
                                          Str(items[Len(items)].v \o t.v)], FALSE)
                            ELSE Parsed("error", <<>>, "SyntaxError")

literal_eval(toks) ==
    IF toks = <<>> THEN Parsed("error", <<>>, "SyntaxError")
    ELSE IF toks[1].k = "lbr"
         THEN IF Len(toks) >= 2 /\ toks[2].k = "comma"
              THEN Parsed("error", <<>>, "SyntaxError")
              ELSE LET p == ParseItems(toks, 2, <<>>, TRUE)
                   IN  IF p.kind = "list" /\ \E j \in 1..Len(p.items) : p.items[j].k = "name"
                       THEN Parsed("error", <<>>, "ValueError")
                       ELSE p
         ELSE IF Len(toks) > 1 THEN Parsed("error", <<>>, "SyntaxError")
              ELSE IF toks[1].k = "str" THEN Parsed("str", <<toks[1]>>, "")
                   ELSE IF toks[1].k = "num" THEN Parsed("num", <<toks[1]>>, "")
                        ELSE IF toks[1].k = "name" THEN Parsed("error", <<>>, "ValueError")
                             ELSE Parsed("error", <<>>, "SyntaxError")

\* generate_followup_questions(chat_history), app.py 57-95.
\* retr: what get_relevant_documents does ("ok" or "raise");
\* gen:  what building and invoking the Generator does: [raises, reply].
Outcome(outcome, result, nRetr, nGen) ==
    [outcome |-> outcome, result |-> result,
     retrieverCalls |-> nRetr, generatorCalls |-> nGen]

all_str(items) == \A j \in 1..Len(items) : items[j].k = "str"

Values(items) == [j \in 1..Len(items) |-> items[j].v]

suggested_questions(gen) ==
    IF gen.raises THEN Outcome("returned", get_default_questions, 1, 1)
    ELSE LET p == literal_eval(gen.reply)
         IN  IF p.kind = "error" THEN Outcome("returned", get_default_questions, 1, 1)
             ELSE IF p.kind = "list" /\ all_str(p.items)
                  THEN Outcome("returned", Values(p.items), 1, 1)
                  ELSE Outcome("returned", get_default_questions, 1, 1)

generate_followup_questions(chat_history, retriever, retr, gen) ==
    IF chat_history = <<>> \/ retriever = "None"
    THEN Outcome("returned", get_default_questions, 0, 0)
    ELSE LET last == last_user_message(chat_history, Len(chat_history))
         IN  IF last.raised THEN Outcome("raised", <<>>, 0, 0)
             ELSE IF ~last.found \/ last.message = ""
                  THEN Outcome("returned", get_default_questions, 0, 0)
                  ELSE IF retr = "raise" THEN Outcome("raised", <<>>, 1, 0)
                       ELSE suggested_questions(gen)

GeneratorBehaviours ==
    { [raises |-> TRUE, reply |-> <<>>] }
        \cup { [raises |-> FALSE, reply |-> r] : r \in GeneratorReplies }

NoCall == [history |-> <<>>, retr |-> "ok", gen |-> [raises |-> TRUE, reply |-> <<>>],
           retriever |-> "None", called |-> FALSE, out |-> Outcome("none", <<>>, 0, 0)]

GenerateFollowupQuestions ==
    /\ ~fq.called
    /\ \E h \in Histories, retr \in {"ok", "raise"}, gen \in GeneratorBehaviours :
        /\ fq' = [history |-> h, retr |-> retr, gen |-> gen,
                  retriever |-> vector_store_retriever, called |-> TRUE,
                  out |-> generate_followup_questions(h, vector_store_retriever, retr, gen)]
        /\ UNCHANGED <<vector_store_retriever, is_rag_initialized, irc, courseVars,
                       serverVars>>

\* the caller takes the result (or the exception); the next call may start
FollowupDone ==
    /\ fq.called
    /\ fq' = NoCall
    /\ UNCHANGED <<vector_store_retriever, is_rag_initialized, irc, courseVars, serverVars>>

\* initialize_rag_chain(), app.py 99-149.  db: chroma.sqlite3 exists;
\* kb: the knowledge-base file exists; fails: a call inside the try raises.
\* Mutant of initialize_rag_chain: the early return for a missing
\* knowledge base does not clear the flag.
initialize_rag_chain_early_return(db, kb, fails) ==
    IF fails THEN [retriever |-> vector_store_retriever, initialized |-> FALSE,
                   outcome |-> "exception"]
    ELSE IF ~db /\ ~kb
         THEN [retriever |-> vector_store_retriever, initialized |-> is_rag_initialized,
               outcome |-> "missing_knowledge_base"]
         ELSE [retriever |-> "retriever", initialized |-> TRUE,
               outcome |-> IF db THEN "loaded" ELSE "created"]

initialize_rag_chain(db, kb, fails) ==
    IF fails THEN [retriever |-> vector_store_retriever, initialized |-> FALSE,
                   outcome |-> "exception"]
    ELSE IF ~db /\ ~kb
         THEN [retriever |-> vector_store_retriever, initialized |-> FALSE,
               outcome |-> "missing_knowledge_base"]
         ELSE [retriever |-> "retriever", initialized |-> TRUE,
               outcome |-> IF db THEN "loaded" ELSE "created"]

InitializeRagChain ==
    \E db \in BOOLEAN, kb \in BOOLEAN, fails \in BOOLEAN :
        LET r == initialize_rag_chain(db, kb, fails)
        IN  /\ vector_store_retriever' = r.retriever
            /\ is_rag_initialized' = r.initialized
            /\ irc' = r.outcome
            /\ UNCHANGED <<fq, courseVars, serverVars>>

NoAnswer == [called |-> FALSE, question |-> "", gen |-> "", answer |-> <<>>]

InitAdmissions ==
    /\ vector_store_retriever = "None"
    /\ is_rag_initialized = FALSE
    /\ irc = "not_called"
    /\ fq = NoCall
    /\ rr = NoAnswer

(***************************************************************************)
(* src/chatbot_script.py : text and JSON values                            *)
(***************************************************************************)
\* A text is a sequence of pieces; the characters below are the ones the
\* regular expressions and case conversions of the code tell apart.
Lowers == <<"a","b","c","d","e","f","g","h","i","j","k","l","m",
            "n","o","p","q","r","s","t","u","v","w","x","y","z">>
Uppers == <<"A","B","C","D","E","F","G","H","I","J","K","L","M",
            "N","O","P","Q","R","S","T","U","V","W","X","Y","Z">>
Digits == <<"0","1","2","3","4","5","6","7","8","9">>

Range(seq) == { seq[i] : i \in 1..Len(seq) }
LowerSet == Range(Lowers)
UpperSet == Range(Uppers)
DigitSet == Range(Digits)
IndexOf(seq, c) == CHOOSE i \in 1..Len(seq) : seq[i] = c

\* str.lower(), str.upper()
lower(text) ==
    [i \in 1..Len(text) |->
        IF text[i] \in UpperSet THEN Lowers[IndexOf(Uppers, text[i])] ELSE text[i]]
upper(text) ==
    [i \in 1..Len(text) |->
        IF text[i] \in LowerSet THEN Uppers[IndexOf(Lowers, text[i])] ELSE text[i]]

\* the character classes \d, [A-Z], \w, \s of the re module
IsDigit(c) == c \in DigitSet
IsUpperAlpha(c) == c \in UpperSet
IsWord(c) == c \in DigitSet \cup LowerSet \cup UpperSet \cup {"_"}
IsSpace(c) == c \in {" ", "\t", "\n"}

\* str(n) for an integer n >= 0
RECURSIVE StrOfInt(_)
StrOfInt(n) == IF n < 10 THEN <<Digits[n + 1]>>
               ELSE StrOfInt(n \div 10) \o <<Digits[(n % 10) + 1]>>

\* sep.join(texts)
RECURSIVE Join(_, _)
Join(sep, texts) ==
    IF texts = <<>> THEN <<>>
    ELSE IF Len(texts) = 1 THEN texts[1]
         ELSE texts[1] \o sep \o Join(sep, Tail(texts))

\* JSON values: strings, integers, null and lists of them
S(text) == [t |-> "str",  s |-> text, n |-> 0, l |-> <<>>]
N(n)    == [t |-> "int",  s |-> <<>>, n |-> n, l |-> <<>>]
Null    == [t |-> "null", s |-> <<>>, n |-> 0, l |-> <<>>]
L(list) == [t |-> "list", s |-> <<>>, n |-> 0, l |-> list]

\* bool(v)
Truthy(v) ==
    CASE v.t = "str"  -> v.s # <<>>
      [] v.t = "int"  -> v.n # 0
      [] v.t = "null" -> FALSE
      [] v.t = "list" -> v.l # <<>>

\* repr(v) of a list item, str(v) / format(v) of a value
ReprOf(v) ==
    CASE v.t = "str"  -> <<"'">> \o v.s \o <<"'">>
      [] v.t = "int"  -> StrOfInt(v.n)
      [] v.t = "null" -> <<"N","o","n","e">>
      [] v.t = "list" -> <<"[","]">>
StrOf(v) ==
    CASE v.t = "str"  -> v.s
      [] v.t = "int"  -> StrOfInt(v.n)
      [] v.t = "null" -> <<"N","o","n","e">>
      [] v.t = "list" -> <<"[">> \o Join(<<",", " ">>, [i \in 1..Len(v.l) |-> ReprOf(v.l[i])])
                             \o <<"]">>

\* dict.get(key, default)
Get(d, key, default) == IF key \in DOMAIN d THEN d[key] ELSE default

\* are all items of a list value strings (str.join raises TypeError otherwise)
AllStr(v) == \A i \in 1..Len(v.l) : v.l[i].t = "str"
Texts(v) == [i \in 1..Len(v.l) |-> v.l[i].s]

\* an insertion-ordered dict as a sequence of [key, val] with distinct keys
HasKey(d, k) == \E i \in 1..Len(d) : d[i].key = k
Lookup(d, k) == d[CHOOSE i \in 1..Len(d) : d[i].key = k].val
Put(d, k, v) ==
    IF HasKey(d, k)
    THEN [i \in 1..Len(d) |-> IF d[i].key = k THEN [key |-> k, val |-> v] ELSE d[i]]
    ELSE Append(d, [key |-> k, val |-> v])
Keys(d) == [i \in 1..Len(d) |-> d[i].key]

(***************************************************************************)
(* EnhancedSyllabusRAGChatbot.load_data, chatbot_script.py 56-136          *)
(***************************************************************************)
NA == S(<<"N","/","A">>)

Chunk(content, metadata, chunk_type) ==
    [content |-> content, metadata |-> metadata, chunk_type |-> chunk_type]

\* line 67: {course['metadata']['course_code']: course for course in data}
\* A record without 'metadata', or metadata without 'course_code', raises
\* KeyError.
Line67Raises(records) ==
    \E i \in 1..Len(records) :
        \/ "metadata" \notin DOMAIN records[i]
        \/ "course_code" \notin DOMAIN records[i].metadata

RECURSIVE course_details_of(_, _)
course_details_of(records, d) ==
    IF records = <<>> THEN d
    ELSE course_details_of(Tail(records),
                           Put(d, Head(records).metadata.course_code, Head(records)))

\* lines 74-75: if not all([course_code, course_name, semester]): continue
NoMetadata == [x \in {} |-> Null]
metadata_of(course) == Get(course, "metadata", NoMetadata)
skipped(course) ==
    LET metadata == metadata_of(course)
    IN  ~ ( /\ Truthy(Get(metadata, "course_code", Null))
            /\ Truthy(Get(metadata, "course_name", Null))
            /\ Truthy(Get(metadata, "semester", Null)) )

\* lines 77-86
summary_entry(metadata) ==
    [course_code |-> metadata.course_code,
     course_name |-> metadata.course_name,
     credits     |-> Get(metadata, "credits", NA),
     category    |-> Get(metadata, "category", NA)]

\* Mutant of add_to_semester: the list under the key is assigned, not
\* appended to.
add_to_semester_assign(map, semester, entry) == Put(map, semester, <<entry>>)

\* lines 77-86
add_to_semester(map, semester, entry) ==
    IF HasKey(map, semester)
    THEN Put(map, semester, Append(Lookup(map, semester), entry))
    ELSE Put(map, semester, <<entry>>)

\* lines 89-92
overview_content(metadata, semester) ==
    <<"Course Overview for ">> \o StrOf(metadata.course_name) \o <<" (">>
        \o StrOf(metadata.course_code) \o <<"): ">>
        \o <<"This is a Semester ">> \o semester \o <<" '">>
        \o StrOf(Get(metadata, "category", NA)) \o <<"' course with ">>
        \o StrOf(Get(metadata, "credits", NA)) \o <<" credits. ">>
        \o <<"Prerequisites: ">>
        \o StrOf(Get(metadata, "prerequisites", S(<<"Not specified">>))) \o <<".">>

\* lines 95-98
outcomes_content(metadata, outcomes) ==
    <<"The course outcomes for ">> \o StrOf(metadata.course_name) \o <<" (">>
        \o StrOf(metadata.course_code) \o <<") are: ">>
        \o Join(<<";", " ">>, Texts(outcomes))

\* lines 108-112
unit_content(metadata, unit) ==
    LET topics == Get(unit, "topics", S(<<"Not specified">>))
        unit_topics == IF topics.t = "list" THEN Join(<<",", " ">>, Texts(topics))
                       ELSE StrOf(topics)
    IN  <<"Syllabus for ">> \o StrOf(metadata.course_name) \o <<" (">>
            \o StrOf(metadata.course_code) \o <<"), Unit ">>
            \o StrOf(Get(unit, "unit_number", S(<<>>))) \o <<" ">>
            \o <<"titled '">> \o StrOf(Get(unit, "title", NA)) \o <<"': ">>
            \o unit_topics

\* lines 103-113: the chunks of the syllabus units; raised when the syllabus
\* is not iterable or the topics of a unit cannot be joined
RECURSIVE unit_chunks(_, _, _)
unit_chunks(metadata, units, acc) ==
    IF units = <<>> THEN [raised |-> FALSE, chunks |-> acc]
    ELSE LET unit == Head(units)
         IN  IF ~unit.isdict THEN unit_chunks(metadata, Tail(units), acc)
             ELSE IF "topics" \in DOMAIN unit /\ unit.topics.t = "list"
                         /\ ~AllStr(unit.topics)
                  THEN [raised |-> TRUE, chunks |-> acc]
                  ELSE unit_chunks(metadata, Tail(units),
                          Append(acc, Chunk(unit_content(metadata, unit), metadata,
                                            "syllabus_unit")))

\* the value under 'syllabus': its JSON type and, for a type "for unit in"
\* can iterate, the items it yields (a string yields its characters, none of
\* them a dict); null and numbers raise TypeError at line 103
NoSyllabus == [t |-> "list", units |-> <<>>]
IterableTypes == {"list", "str"}
NoList == L(<<>>)
NoBooks == [x \in {} |-> NoList]

\* lines 116-123
books_content(metadata, textbooks, ref_books) ==
    <<"Reading materials for ">> \o StrOf(metadata.course_name) \o <<" (">>
        \o StrOf(metadata.course_code) \o <<"). ">>
        \o <<"Textbooks: ">>
        \o (IF Truthy(textbooks) THEN Join(<<",", " ">>, Texts(textbooks))
            ELSE <<"None listed">>) \o <<". ">>
        \o <<"Reference Books: ">>
        \o (IF Truthy(ref_books) THEN Join(<<",", " ">>, Texts(ref_books))
            ELSE <<"None listed">>) \o <<".">>

\* Mutant of has_books: a books chunk only when both lists are given.
has_both_books(textbooks, ref_books) == Truthy(textbooks) /\ Truthy(ref_books)

\* line 119: if textbooks or ref_books
has_books(textbooks, ref_books) == Truthy(textbooks) \/ Truthy(ref_books)

\* one pass of the loop body, lines 70-123, on the state
\* st = [raised, chunks, map]; chunks appended before a raise stay appended
load_course(st, course) ==
    IF st.raised \/ skipped(course) THEN st
    ELSE
    LET metadata == metadata_of(course)
        semester == StrOf(metadata.semester)
        map1     == add_to_semester(st.map, semester, summary_entry(metadata))
        chunks1  == Append(st.chunks,
                       Chunk(overview_content(metadata, semester), metadata, "overview"))
        outcomes == Get(metadata, "course_outcomes", NoList)
        hasOutcomes == Truthy(outcomes) /\ outcomes.t = "list"
    IN  IF hasOutcomes /\ ~AllStr(outcomes)
        THEN [raised |-> TRUE, chunks |-> chunks1, map |-> map1]
        ELSE
        LET chunks2 == IF hasOutcomes
                       THEN Append(chunks1, Chunk(outcomes_content(metadata, outcomes),
                                                  metadata, "outcomes"))
                       ELSE chunks1
            syllabus == Get(course, "syllabus", NoSyllabus)
        IN  IF syllabus.t \notin IterableTypes
            THEN [raised |-> TRUE, chunks |-> chunks2, map |-> map1]
            ELSE
            LET units == unit_chunks(metadata, syllabus.units, chunks2)
                books == Get(course, "books", NoBooks)
                textbooks == Get(books, "textbooks", NoList)
                ref_books == Get(books, "reference_books", NoList)
            IN  IF units.raised
                THEN [raised |-> TRUE, chunks |-> units.chunks, map |-> map1]
                ELSE IF has_books(textbooks, ref_books)
                     THEN IF ~AllStr(textbooks) \/ ~AllStr(ref_books)
                          THEN [raised |-> TRUE, chunks |-> units.chunks, map |-> map1]
                          ELSE [raised |-> FALSE,
                                chunks |-> Append(units.chunks,
                                    Chunk(books_content(metadata, textbooks, ref_books),
                                          metadata, "books")),
                                map |-> map1]
                     ELSE [raised |-> FALSE, chunks |-> units.chunks, map |-> map1]

RECURSIVE load_courses(_, _)
load_courses(st, records) ==
    IF records = <<>> THEN st
    ELSE load_courses(load_course(st, Head(records)), Tail(records))

\* load_data(syllabus_data_path, optimization_path) on an instance whose
\* tables are tb; opt.present: the optimization file exists (lines 126-134)
load_data(tb, records, opt) ==
    IF Line67Raises(records) THEN [raised |-> TRUE, tables |-> tb]
    ELSE
    LET details == course_details_of(records, <<>>)
        st == load_courses([raised |-> FALSE, chunks |-> tb.chunks_data,
                            map |-> tb.semester_course_map], records)
        tb1 == [tb EXCEPT !.course_details = details,
                          !.chunks_data = st.chunks,
                          !.semester_course_map = st.map]
    IN  IF st.raised THEN [raised |-> TRUE, tables |-> tb1]
        ELSE [raised |-> FALSE,
              tables |-> [tb1 EXCEPT
                  !.faq_data = IF opt.present THEN opt.faq_dataset ELSE <<>>,
                  !.concept_mapping = IF opt.present THEN opt.concept_mapping ELSE <<>>]]

(***************************************************************************)
(* Input data: course records of syllabus_data.json and the content of     *)
(* rag_optimization_data.json                                              *)
(***************************************************************************)
c23BS1101 == <<"2","3","B","S","1","1","0","1">>
c23CS2202 == <<"2","3","C","S","2","2","0","2">>
c23EE3303 == <<"2","3","E","E","3","3","0","3">>
c23ME4404 == <<"2","3","M","E","4","4","0","4">>
c23HS5505 == <<"2","3","H","S","5","5","0","5">>
nMaths == <<"M","a","t","h","s">>
nMl    == <<"m","l">>
nLab   == <<"L","a","b">>
nArt   == <<"A","r","t">>

MathsCourse ==
    [metadata |-> [course_code |-> S(c23BS1101), course_name |-> S(nMaths),
                   semester |-> N(3), credits |-> N(4), category |-> S(<<"B","S">>),
                   course_outcomes |-> L(<<S(<<"C","O","1">>), S(<<"C","O","2">>)>>)],
     syllabus |-> [t |-> "list",
                   units |-> << [isdict |-> TRUE, unit_number |-> N(1),
                                 title |-> S(<<"S","e","t","s">>),
                                 topics |-> L(<<S(<<"a">>), S(<<"b">>)>>)],
                                [isdict |-> FALSE] >>],
     books |-> [textbooks |-> L(<<S(<<"T","1">>)>>)]]
MlCourse ==
    [metadata |-> [course_code |-> S(c23CS2202), course_name |-> S(nMl),
                   semester |-> S(<<"3">>)]]
OneOutcomeCourse ==
    [metadata |-> [course_code |-> S(c23HS5505), course_name |-> S(nLab),
                   semester |-> N(2),
                   course_outcomes |-> L(<<S(<<"C","O","9">>)>>)]]
RefBooksCourse ==
    [metadata |-> [course_code |-> S(c23EE3303), course_name |-> S(nArt),
                   semester |-> N(2), course_outcomes |-> L(<<>>)],
     books |-> [textbooks |-> L(<<>>),
                reference_books |-> L(<<S(<<"R","1">>), S(<<"R","2">>)>>)]]
NoNameCourse ==
    [metadata |-> [course_code |-> S(c23EE3303), semester |-> N(1)]]
NullNameCourse ==
    [metadata |-> [course_code |-> S(c23ME4404), course_name |-> Null,
                   semester |-> N(1)]]
NoSemesterCourse ==
    [metadata |-> [course_code |-> S(c23HS5505), course_name |-> S(nArt)]]
NullCodeCourse ==
    [metadata |-> [course_code |-> Null, course_name |-> S(nArt), semester |-> N(1)]]
NoCodeCourse ==
    [metadata |-> [course_name |-> S(nLab), semester |-> N(1)]]
NoMetadataCourse ==
    [syllabus |-> NoSyllabus]

\* accepted records that differ in the value under 'syllabus'
Meta(code, name) == [course_code |-> S(code), course_name |-> S(name), semester |-> N(4)]
GoodUnit(n) ==
    [isdict |-> TRUE, unit_number |-> N(n), title |-> S(<<"T">>),
     topics |-> L(<<S(<<"a">>), S(<<"b">>)>>)]
NotARecord == [isdict |-> FALSE]
TwoUnitsCourse ==
    [metadata |-> Meta(c23CS2202, nLab),
     syllabus |-> [t |-> "list", units |-> <<GoodUnit(1), GoodUnit(2)>>]]
MixedEntriesCourse ==
    [metadata |-> Meta(c23CS2202, nArt),
     syllabus |-> [t |-> "list", units |-> <<NotARecord, GoodUnit(1), NotARecord>>]]
StringSyllabusCourse ==
    [metadata |-> Meta(c23EE3303, nLab),
     syllabus |-> [t |-> "str", units |-> <<NotARecord, NotARecord>>]]
NullSyllabusCourse ==
    [metadata |-> Meta(c23EE3303, nArt), syllabus |-> [t |-> "null", units |-> <<>>]]
NumberSyllabusCourse ==
    [metadata |-> Meta(c23EE3303, nMl), syllabus |-> [t |-> "int", units |-> <<>>]]
NumberTopicsCourse ==
    [metadata |-> Meta(c23ME4404, nLab),
     syllabus |-> [t |-> "list",
                   units |-> << GoodUnit(1),
                                [isdict |-> TRUE, unit_number |-> N(2),
                                 title |-> S(<<"T">>),
                                 topics |-> L(<<N(1), N(2)>>)] >>]]
NullTopicCourse ==
    [metadata |-> Meta(c23ME4404, nArt),
     syllabus |-> [t |-> "list",
                   units |-> << [isdict |-> TRUE, topics |-> L(<<S(<<"a">>), Null>>)] >>]]
PlainTopicsCourse ==
    [metadata |-> Meta(c23HS5505, nLab),
     syllabus |-> [t |-> "list",
                   units |-> << [isdict |-> TRUE, topics |-> S(<<"a">>)],
                                [isdict |-> TRUE, topics |-> N(5)],
                                [isdict |-> TRUE] >>]]
SkippedWithUnitsCourse ==
    [metadata |-> [course_code |-> S(c23HS5505), course_name |-> Null, semester |-> N(4)],
     syllabus |-> [t |-> "list", units |-> <<GoodUnit(1)>>]]
SyllabusShapes ==
    { MlCourse, TwoUnitsCourse, MixedEntriesCourse, StringSyllabusCourse,
      NullSyllabusCourse, NumberSyllabusCourse, NumberTopicsCourse, NullTopicCourse,
      PlainTopicsCourse, SkippedWithUnitsCourse }
SyllabusDatasets == SeqsUpTo(SyllabusShapes, MaxCourses)

CourseShapes ==
    { MathsCourse, MlCourse, OneOutcomeCourse, RefBooksCourse, NoNameCourse, NullNameCourse, NoSemesterCourse,
      NullCodeCourse, NoCodeCourse, NoMetadataCourse }

Datasets == SeqsUpTo(CourseShapes, MaxCourses)

kMath == <<"m","a","t","h">>
kAI   == <<"A","I">>
OptMissing == [present |-> FALSE, faq_dataset |-> <<>>, concept_mapping |-> <<>>]
OptFull ==
    [present |-> TRUE,
     faq_dataset |-> << [question |-> S(<<"f","e","e","?">>), answer |-> S(<<"1","0">>),
                         category |-> S(<<"f","e","e","s">>)],
                        [question |-> S(<<"w","h","o","?">>), answer |-> S(<<"u","s">>)] >>,
     concept_mapping |-> << [key |-> kMath, val |-> <<c23BS1101, c23CS2202, c23EE3303>>],
                            [key |-> kAI,   val |-> <<c23CS2202>>] >>]
Optimizations == { OptMissing, OptFull }


(***************************************************************************)
(* The vector index (chromadb.PersistentClient) and                        *)
(* create_enhanced_vector_store, chatbot_script.py 138-191                 *)
(***************************************************************************)
batch_size == 100

\* the collections of the persistent client: per name, whether it exists,
\* the identity it was created with and its entries in insertion order
\* Dataset identities as requests name them: a department and a regulation
\* (none, or empty: NoRegulation)
NoRegulation == <<>>
Departments ==
    { <<"c","s">>, <<"C","S">>, <<"c","s","_","r","2","0">>, <<"e","e">> }
Regulations == { NoRegulation, <<"r","2","0">>, <<"R","2","0">> }
DATA_ROOT_DIRECTORY == <<"d","a","t","a">>

\* os.path.join
path_join(a, b) == a \o <<"/">> \o b

\* setup_enhanced_chatbot, lines 338-343
data_path(data_root, department, regulation) ==
    IF regulation # NoRegulation
    THEN path_join(path_join(data_root, department), regulation)
    ELSE path_join(data_root, department)

\* Mutant of collection_name: the parts are joined by a character that
\* cannot occur in a directory name.
collection_name_slash(department, regulation) ==
    IF regulation # NoRegulation
    THEN <<"syllabus_collection_">> \o department \o <<"/">> \o regulation
    ELSE <<"syllabus_collection_">> \o department

collection_name(department, regulation) ==
    IF regulation # NoRegulation
    THEN <<"syllabus_collection_">> \o department \o <<"_">> \o regulation
    ELSE <<"syllabus_collection_">> \o department

\* the collection the single-instance scenarios rebuild and query
StoreNames == { collection_name(<<"c","e">>, NoRegulation) }
CollectionNames ==
    StoreNames \cup { collection_name(lower(d), lower(r)) :
                        d \in Departments, r \in Regulations }
NoCollection == [set |-> FALSE, name |-> <<>>, uid |-> 0]
NoSuchCollection == [exists |-> FALSE, uid |-> 0, entries |-> <<>>]

\* embedding_model.encode: a fixed function of the text alone; the index
\* ranks by the distance between two embeddings
Embed(text) == Len(text)
Distance(a, b) == IF a >= b THEN a - b ELSE b - a

\* client.delete_collection(name); fails: the call raises although the
\* collection exists.  A missing collection raises as well (lines 147-151:
\* every exception is swallowed).
delete_collection(st, name, fails) ==
    IF st[name].exists /\ ~fails THEN [st EXCEPT ![name] = NoSuchCollection] ELSE st

\* Mutant of create_collection: get_or_create_collection, an existing
\* collection is reused with its entries.
get_or_create_collection(st, name, uid) ==
    IF st[name].exists THEN [raised |-> FALSE, store |-> st, uid |-> st[name].uid]
    ELSE [raised |-> FALSE, uid |-> uid,
          store |-> [st EXCEPT ![name] = [exists |-> TRUE, uid |-> uid, entries |-> <<>>]]]

\* client.create_collection(name, ...): raises when the name is taken
create_collection(st, name, uid) ==
    IF st[name].exists THEN [raised |-> TRUE, store |-> st, uid |-> uid]
    ELSE [raised |-> FALSE, uid |-> uid,
          store |-> [st EXCEPT ![name] = [exists |-> TRUE, uid |-> uid, entries |-> <<>>]]]

\* is the collection a handle refers to still the one the client holds
Live(st, handle) ==
    handle.set /\ st[handle.name].exists /\ st[handle.name].uid = handle.uid

\* lines 161-167
metadata_cleaned(chunk) ==
    [k \in { key \in DOMAIN chunk.metadata : chunk.metadata[key].t # "null" }
              \cup {"chunk_type", "source"} |->
        IF k = "source" THEN S(<<"syllabus">>)
        ELSE IF k = "chunk_type" THEN S(<<chunk.chunk_type>>)
             ELSE S(StrOf(chunk.metadata[k]))]

Docs(documents, metadatas, ids) ==
    [documents |-> documents, metadatas |-> metadatas, ids |-> ids]

chunk_docs(chunks) ==
    Docs([i \in 1..Len(chunks) |-> chunks[i].content],
         [i \in 1..Len(chunks) |-> metadata_cleaned(chunks[i])],
         [i \in 1..Len(chunks) |-> <<"chunk_">> \o StrOfInt(i - 1)])

\* lines 170-175
course_line(c) ==
    <<"- ">> \o StrOf(c.course_code) \o <<": ">> \o StrOf(c.course_name) \o <<" (">>
        \o StrOf(c.credits) \o <<" credits, ">> \o StrOf(c.category) \o <<")">>
semester_content(semester, courses) ==
    <<"The following courses are offered in Semester ">> \o semester \o <<":", "\n">>
        \o Join(<<"\n">>, [i \in 1..Len(courses) |-> course_line(courses[i])])
semester_docs(map) ==
    Docs([i \in 1..Len(map) |-> semester_content(map[i].key, map[i].val)],
         [i \in 1..Len(map) |->
             [semester |-> S(map[i].key), chunk_type |-> S(<<"semester_summary">>),
              source |-> S(<<"semester_map">>),
              total_courses |-> S(StrOfInt(Len(map[i].val)))]],
         [i \in 1..Len(map) |-> <<"semester_">> \o map[i].key])

\* lines 178-181; faq['question'] / faq['answer'] raise KeyError when missing
faq_raises(faqs) ==
    \E i \in 1..Len(faqs) : "question" \notin DOMAIN faqs[i] \/ "answer" \notin DOMAIN faqs[i]
faq_docs(faqs) ==
    Docs([i \in 1..Len(faqs) |->
             <<"Question: ">> \o StrOf(faqs[i].question) \o <<" Answer: ">>
                 \o StrOf(faqs[i].answer)],
         [i \in 1..Len(faqs) |->
             [category |-> Get(faqs[i], "category", S(<<"general">>)),
              chunk_type |-> S(<<"faq">>), source |-> S(<<"faq">>)]],
         [i \in 1..Len(faqs) |-> <<"faq_">> \o StrOfInt(i - 1)])

\* lines 158-181: the three parallel lists
documents_of(tb) ==
    LET c == chunk_docs(tb.chunks_data)
        s == semester_docs(tb.semester_course_map)
        f == faq_docs(tb.faq_data)
    IN  Docs(c.documents \o s.documents \o f.documents,
             c.metadatas \o s.metadatas \o f.metadatas,
             c.ids \o s.ids \o f.ids)

\* Mutant of batch: the slice loses its last element (an off-by-one bound).
batch_short(list, i) ==
    SubSeq(list, i + 1, (IF i + batch_size <= Len(list) THEN i + batch_size ELSE Len(list)) - 1)

\* list[i:i + batch_size]
batch(list, i) ==
    SubSeq(list, i + 1, IF i + batch_size <= Len(list) THEN i + batch_size ELSE Len(list))

\* collection.add(embeddings, documents, metadatas, ids) on a live handle
entries_of(embeddings, documents, metadatas, ids) ==
    [j \in 1..Len(ids) |-> [id |-> ids[j], document |-> documents[j],
                            metadata |-> metadatas[j], embedding |-> embeddings[j]]]
collection_add(st, handle, embeddings, documents, metadatas, ids) ==
    [st EXCEPT ![handle.name].entries =
        @ \o entries_of(embeddings, documents, metadatas, ids)]

\* collection.query(query_embeddings, n_results, include): the n_results
\* nearest entries, nearest first, ties in insertion order
Nearer(entries, emb, i, j) ==
    \/ Distance(emb, entries[i].embedding) < Distance(emb, entries[j].embedding)
    \/ /\ Distance(emb, entries[i].embedding) = Distance(emb, entries[j].embedding)
       /\ i <= j
RECURSIVE nearest(_, _, _, _)
nearest(entries, emb, picked, n) ==
    IF n = 0 \/ Len(picked) = Len(entries) THEN picked
    ELSE LET rest == { i \in 1..Len(entries) : \A p \in 1..Len(picked) : picked[p] # i }
             best == CHOOSE i \in rest : \A j \in rest : Nearer(entries, emb, i, j)
         IN  nearest(entries, emb, Append(picked, best), n - 1)
collection_query(entries, emb, n_results) ==
    LET order == nearest(entries, emb, <<>>, n_results)
    IN  [ids       |-> [p \in 1..Len(order) |-> entries[order[p]].id],
         documents |-> [p \in 1..Len(order) |-> entries[order[p]].document],
         metadatas |-> [p \in 1..Len(order) |-> entries[order[p]].metadata],
         distances |-> [p \in 1..Len(order) |->
                           Distance(emb, entries[order[p]].embedding)]]

(***************************************************************************)
(* The activations' idle values                                            *)
(***************************************************************************)
IdleRebuild == [pc |-> "idle", name |-> <<>>, docs |-> Docs(<<>>, <<>>, <<>>), i |-> 0]
NoRaw == [ids |-> <<>>, documents |-> <<>>, metadatas |-> <<>>, distances |-> <<>>]
NoChat ==
    [pc |-> "idle", query |-> <<>>, k |-> 0, enhanced |-> <<>>, raw |-> NoRaw,
     results |-> <<>>, prompt |-> <<>>, outcome |-> "", answer |-> <<>>, log |-> <<>>,
     gen |-> "", embedding |-> 0, hadCollection |-> FALSE, rbAtQuery |-> "idle",
     n |-> 0, partial |-> FALSE]

(***************************************************************************)
(* The chatbot instance: construction and ingestion                        *)
(***************************************************************************)
NoAgain == [called |-> FALSE, raised |-> FALSE, result |-> <<>>]
NoEnhance ==
    [called |-> FALSE, query |-> <<>>, raised |-> FALSE, result |-> <<>>,
     again |-> NoAgain]

NoLoad == [called |-> FALSE, raised |-> FALSE, records |-> <<>>, opt |-> OptMissing]

Tables == [chunks_data |-> chunks_data, faq_data |-> faq_data,
           concept_mapping |-> concept_mapping, course_details |-> course_details,
           semester_course_map |-> semester_course_map]

\* __init__, lines 47-54
InitTables ==
    /\ chunks_data = <<>>
    /\ faq_data = <<>>
    /\ concept_mapping = <<>>
    /\ course_details = <<>>
    /\ semester_course_map = <<>>

SetTables(tb) ==
    /\ chunks_data' = tb.chunks_data
    /\ faq_data' = tb.faq_data
    /\ concept_mapping' = tb.concept_mapping
    /\ course_details' = tb.course_details
    /\ semester_course_map' = tb.semester_course_map

\* chatbot.load_data(...) as setup_enhanced_chatbot calls it (line 352): once
\* on a new instance
LoadDataFrom(DS, OPTS) ==
    /\ ~ld.called
    /\ \E records \in DS, opt \in OPTS :
          LET r == load_data(Tables, records, opt)
          IN  /\ SetTables(r.tables)
              /\ ld' = [called |-> TRUE, raised |-> r.raised,
                        records |-> records, opt |-> opt]
    /\ UNCHANGED <<admissionsVars, serverVars, eq, collection, store, nextUid, rb, ch>>

LoadData == LoadDataFrom(Datasets, Optimizations)

\* load_data on records that differ in their syllabus value
LoadSyllabus == LoadDataFrom(SyllabusDatasets, {OptMissing})

\* EnhancedSyllabusRAGChatbot(gemini_api_key): a new instance (line 351)
NewChatbot ==
    /\ ld.called
    /\ rb.pc = "idle" /\ ch.pc = "idle"
    /\ collection' = NoCollection
    /\ SetTables([chunks_data |-> <<>>, faq_data |-> <<>>, concept_mapping |-> <<>>,
                  course_details |-> <<>>, semester_course_map |-> <<>>])
    /\ ld' = NoLoad
    /\ eq' = NoEnhance
    /\ UNCHANGED <<admissionsVars, serverVars, store, nextUid, rb, ch>>

InitCourse ==
    /\ InitTables
    /\ ld = NoLoad
    /\ eq = NoEnhance
    /\ collection = NoCollection
    /\ store = [name \in CollectionNames |-> NoSuchCollection]
    /\ nextUid = 1
    /\ rb = IdleRebuild
    /\ ch = NoChat

(***************************************************************************)
(* EnhancedSyllabusRAGChatbot.enhance_query, chatbot_script.py 194-224     *)
(***************************************************************************)
StartsWith(t, i, w) == i + Len(w) - 1 <= Len(t) /\ SubSeq(t, i, i + Len(w) - 1) = w

\* w in t
Contains(t, w) == w = <<>> \/ \E i \in 1..Len(t) : StartsWith(t, i, w)

\* the position after the longest run of \s, \d, [A-Z&] starting at j
RECURSIVE SkipSpaces(_, _)
SkipSpaces(t, j) == IF j <= Len(t) /\ IsSpace(t[j]) THEN SkipSpaces(t, j + 1) ELSE j
RECURSIVE SkipDigits(_, _)
SkipDigits(t, j) == IF j <= Len(t) /\ IsDigit(t[j]) THEN SkipDigits(t, j + 1) ELSE j
RECURSIVE SkipCodeLetters(_, _)
SkipCodeLetters(t, j) ==
    IF j <= Len(t) /\ (IsUpperAlpha(t[j]) \/ t[j] = "&") THEN SkipCodeLetters(t, j + 1) ELSE j

\* \b between positions j-1 and j, where one of the two is known to be \w
BoundaryBefore(t, j) == j = 1 \/ ~IsWord(t[j - 1])
BoundaryAfter(t, j) == j = Len(t) \/ ~IsWord(t[j + 1])

NoMatch == [ok |-> FALSE, group |-> <<>>]

\* \s*(\d+)\b matched from position j
SemTail(t, j) ==
    LET d == SkipSpaces(t, j)
        e == SkipDigits(t, d)
    IN  IF e > d /\ BoundaryAfter(t, e - 1)
        THEN [ok |-> TRUE, group |-> SubSeq(t, d, e - 1)]
        ELSE NoMatch

\* \bsem(?:ester)?\s*(\d+)\b matched at position i
SemMatchAt(t, i) ==
    IF ~(BoundaryBefore(t, i) /\ StartsWith(t, i, <<"s","e","m">>)) THEN NoMatch
    ELSE LET long == IF StartsWith(t, i + 3, <<"e","s","t","e","r">>)
                     THEN SemTail(t, i + 8) ELSE NoMatch
         IN  IF long.ok THEN long ELSE SemTail(t, i + 3)

\* \b\d{2}[A-Z&]{2,}\d{4}[A-Z]?\b matched at position i
CodeMatchAt(t, i) ==
    IF ~(BoundaryBefore(t, i) /\ i + 1 <= Len(t) /\ IsDigit(t[i]) /\ IsDigit(t[i + 1]))
    THEN NoMatch
    ELSE LET p == SkipCodeLetters(t, i + 2)
         IN  IF ~(p - (i + 2) >= 2 /\ p + 3 <= Len(t)
                    /\ \A j \in p..(p + 3) : IsDigit(t[j]))
             THEN NoMatch
             ELSE IF p + 4 <= Len(t) /\ IsUpperAlpha(t[p + 4]) /\ BoundaryAfter(t, p + 4)
                  THEN [ok |-> TRUE, group |-> SubSeq(t, i, p + 4)]
                  ELSE IF BoundaryAfter(t, p + 3)
                       THEN [ok |-> TRUE, group |-> SubSeq(t, i, p + 3)]
                       ELSE NoMatch

\* re.search: the leftmost match
Min(I) == CHOOSE i \in I : \A j \in I : i <= j
sem_search(t) ==
    LET I == { i \in 1..Len(t) : SemMatchAt(t, i).ok }
    IN  IF I = {} THEN NoMatch ELSE SemMatchAt(t, Min(I))
code_search(t) ==
    LET I == { i \in 1..Len(t) : CodeMatchAt(t, i).ok }
    IN  IF I = {} THEN NoMatch ELSE CodeMatchAt(t, Min(I))

\* lines 207-212: the course names of the semester mentioned
semester_terms(tb, query_lower) ==
    LET sem_match == sem_search(query_lower)
    IN  IF sem_match.ok /\ HasKey(tb.semester_course_map, sem_match.group)
        THEN LET courses == Lookup(tb.semester_course_map, sem_match.group)
             IN  [i \in 1..Len(courses) |-> courses[i].course_name]
        ELSE <<>>

\* lines 214-219: the name of the course whose code is mentioned
code_terms(tb, query) ==
    LET course_code_pattern == code_search(upper(query))
    IN  IF course_code_pattern.ok /\ HasKey(tb.course_details, S(course_code_pattern.group))
        THEN << Get(Lookup(tb.course_details, S(course_code_pattern.group)).metadata,
                    "course_name", S(<<>>)) >>
        ELSE <<>>

\* lines 221-223: courses[:2] of every concept found in the query
FirstTwo(courses) == SubSeq(courses, 1, IF Len(courses) < 2 THEN Len(courses) ELSE 2)
RECURSIVE concept_terms(_, _)
concept_terms(mapping, query_lower) ==
    IF mapping = <<>> THEN <<>>
    ELSE (IF Contains(query_lower, lower(Head(mapping).key))
          THEN [i \in 1..Len(FirstTwo(Head(mapping).val)) |-> S(FirstTwo(Head(mapping).val)[i])]
          ELSE <<>>)
         \o concept_terms(Tail(mapping), query_lower)

\* Mutant of enhanced_terms: the rules are alternatives (elif), only the
\* first one that matches contributes.
first_rule_terms(tb, query) ==
    IF semester_terms(tb, lower(query)) # <<>> THEN semester_terms(tb, lower(query))
    ELSE IF code_terms(tb, query) # <<>> THEN code_terms(tb, query)
         ELSE concept_terms(tb.concept_mapping, lower(query))

\* Mutant of enhanced_terms: every concept match contributes all its courses.
all_concept_terms(tb, query) ==
    semester_terms(tb, lower(query)) \o code_terms(tb, query)
        \o concept_terms([i \in 1..Len(tb.concept_mapping) |->
                             [key |-> tb.concept_mapping[i].key,
                              val |-> tb.concept_mapping[i].val
                                        \o tb.concept_mapping[i].val]],
                         lower(query))

enhanced_terms(tb, query) ==
    semester_terms(tb, lower(query)) \o code_terms(tb, query)
        \o concept_terms(tb.concept_mapping, lower(query))

\* line 224; ' '.join raises TypeError on a term that is not a string
enhance_query(tb, query) ==
    LET joined(terms) ==
            IF terms = <<>> THEN [raised |-> FALSE, result |-> query]
            ELSE IF \E i \in 1..Len(terms) : terms[i].t # "str"
                 THEN [raised |-> TRUE, result |-> <<>>]
                 ELSE [raised |-> FALSE,
                       result |-> query \o <<" ">>
                                    \o Join(<<" ">>, [i \in 1..Len(terms) |-> terms[i].s])]
    IN  joined(enhanced_terms(tb, query))

\* Mutant of tables_after_enhance: the course list of the semester is taken
\* out of semester_course_map (pop) instead of read.
tables_after_enhance_pop(tb, query) ==
    LET sem_match == sem_search(lower(query))
        map == tb.semester_course_map
        kept == { i \in 1..Len(map) : map[i].key # sem_match.group }
        Nth(n) == CHOOSE i \in kept : Cardinality({ j \in kept : j <= i }) = n
    IN  IF sem_match.ok /\ HasKey(map, sem_match.group)
        THEN [tb EXCEPT !.semester_course_map =
                            [n \in 1..Cardinality(kept) |-> map[Nth(n)]]]
        ELSE tb

\* lines 204-224: what enhance_query leaves in the instance's tables.  It
\* assigns no attribute; the lists it extends are its own (enhanced_terms, a
\* new list of names, the slice courses[:2]).
tables_after_enhance(tb, query) == tb

\* Queries: up to MaxParts of these parts, separated by single spaces
QueryParts ==
    { <<"s","e","m"," ","3">>,
      <<"S","e","m","e","s","t","e","r","3">>,
      <<"s","e","m"," ","0","3">>,
      <<"s","e","m","i"," ","3">>,
      <<"s","e","m"," ","3","r","d">>,
      <<"s","e","m"," ","1">>,
      <<"2","3","b","s","1","1","0","1">>,
      <<"2","3","B","S","1","1","0","1","A">>,
      <<"x","2","3","B","S","1","1","0","1">>,
      <<"2","3","E","E","3","3","0","3">>,
      <<"2","3","m","e","4","4","0","4">>,
      <<"2","3","H","S","5","5","0","5">>,
      <<"M","a","t","h","s","?">>,
      <<"a","i">>,
      <<"h","i">> }

Queries == { Join(<<" ">>, ps) : ps \in SeqsUpTo(QueryParts, MaxParts) }

EnhanceDatasets ==
    { <<>>, <<MathsCourse, MlCourse>>, <<MlCourse, NoNameCourse, MathsCourse>>,
      <<NullNameCourse, MathsCourse>>, <<MathsCourse, NoSemesterCourse>> }

LoadSmall == LoadDataFrom(EnhanceDatasets, Optimizations)

\* chatbot.enhance_query(query) on a loaded instance
EnhanceQuery ==
    /\ ld.called /\ ~ld.raised
    /\ ~eq.called
    /\ \E query \in Queries :
          LET r == enhance_query(Tables, query)
          IN  /\ eq' = [called |-> TRUE, query |-> query, raised |-> r.raised,
                         result |-> r.result, again |-> NoAgain]
              /\ SetTables(tables_after_enhance(Tables, query))
    /\ UNCHANGED <<admissionsVars, serverVars, ld, collection, store, nextUid, rb, ch>>

\* chatbot.enhance_query(enhanced): the text a first call returned is
\* enhanced once more
EnhanceAgain ==
    /\ eq.called /\ ~eq.raised
    /\ ~eq.again.called
    /\ LET r == enhance_query(Tables, eq.result)
       IN  /\ eq' = [eq EXCEPT !.again = [called |-> TRUE, raised |-> r.raised,
                                           result |-> r.result]]
           /\ SetTables(tables_after_enhance(Tables, eq.result))
    /\ UNCHANGED <<admissionsVars, serverVars, ld, collection, store, nextUid, rb, ch>>

\* create_enhanced_vector_store(collection_name), lines 147-151: the old
\* collection is deleted, every exception swallowed
RebuildDelete ==
    /\ rb.pc = "idle"
    /\ ld.called /\ ~ld.raised
    /\ nextUid <= MaxRebuilds
    /\ \E name \in StoreNames, fails \in BOOLEAN :
          /\ store' = delete_collection(store, name, fails)
          /\ rb' = [IdleRebuild EXCEPT !.pc = "deleted", !.name = name]
    /\ UNCHANGED <<admissionsVars, serverVars, tableVars, ld, eq, collection, nextUid,
                   ch>>

\* lines 153-181: the collection is created, self.collection set, and the
\* three lists are built
RebuildCreate ==
    /\ rb.pc = "deleted"
    /\ LET c == create_collection(store, rb.name, nextUid)
       IN  IF c.raised
           THEN /\ rb' = [rb EXCEPT !.pc = "raised"]
                /\ UNCHANGED <<store, collection, nextUid>>
           ELSE /\ store' = c.store
                /\ collection' = [set |-> TRUE, name |-> rb.name, uid |-> c.uid]
                /\ nextUid' = nextUid + 1
                /\ rb' = IF faq_raises(faq_data) THEN [rb EXCEPT !.pc = "raised"]
                         ELSE [rb EXCEPT !.pc = "adding", !.docs = documents_of(Tables),
                                         !.i = 0]
    /\ UNCHANGED <<admissionsVars, serverVars, tableVars, ld, eq, ch>>

\* lines 185-190: one pass of the batch loop; encodeFails: the embedding
\* model raises
RebuildAddBatch ==
    /\ rb.pc = "adding"
    /\ rb.i < Len(rb.docs.documents)
    /\ \E encodeFails \in BOOLEAN :
          IF encodeFails
          THEN /\ rb' = [rb EXCEPT !.pc = "raised"]
               /\ UNCHANGED store
          ELSE LET batch_docs == batch(rb.docs.documents, rb.i)
                   batch_meta == batch(rb.docs.metadatas, rb.i)
                   batch_ids  == batch(rb.docs.ids, rb.i)
                   embeddings == [j \in 1..Len(batch_docs) |-> Embed(batch_docs[j])]
               IN  /\ store' = collection_add(store, collection, embeddings,
                                              batch_docs, batch_meta, batch_ids)
                   /\ rb' = [rb EXCEPT !.i = rb.i + batch_size]
    /\ UNCHANGED <<admissionsVars, serverVars, tableVars, ld, eq, collection, nextUid,
                   ch>>

\* line 191: the loop is over, the method returns
RebuildReturn ==
    /\ rb.pc = "adding"
    /\ rb.i >= Len(rb.docs.documents)
    /\ rb' = [rb EXCEPT !.pc = "returned"]
    /\ UNCHANGED <<admissionsVars, serverVars, tableVars, ld, eq, collection, store,
                   nextUid, ch>>

\* the caller goes on after the return or the exception
RebuildDone ==
    /\ rb.pc \in {"returned", "raised"}
    /\ rb' = IdleRebuild
    /\ UNCHANGED <<admissionsVars, serverVars, tableVars, ld, eq, collection, store,
                   nextUid, ch>>

(***************************************************************************)
(* retrieve_context, generate_enhanced_response and chat, lines 226-329    *)
(***************************************************************************)
\* Mutant of chat_check: the collection is tested after the query has been
\* enhanced and embedded.
chat_check_late(handle, tb, query, k) ==
    LET base == [NoChat EXCEPT !.query = query, !.k = k, !.hadCollection = handle.set]
        e == enhance_query(tb, query)
    IN  IF e.raised
        THEN [base EXCEPT !.pc = "done", !.outcome = "type_error", !.log = <<"enhance">>]
        ELSE IF ~handle.set
             THEN [base EXCEPT !.pc = "done", !.outcome = "not_initialized",
                               !.log = <<"enhance", "embed">>]
             ELSE [base EXCEPT !.pc = "embedded", !.enhanced = e.result,
                               !.embedding = Embed(e.result),
                               !.log = <<"enhance", "embed">>]

\* lines 237-240: "if not self.collection: raise ValueError", then the
\* query is enhanced and embedded
chat_check(handle, tb, query, k) ==
    LET base == [NoChat EXCEPT !.query = query, !.k = k, !.hadCollection = handle.set]
    IN  IF ~handle.set
        THEN [base EXCEPT !.pc = "done", !.outcome = "not_initialized"]
        ELSE LET embedded(e) ==
                     IF e.raised
                     THEN [base EXCEPT !.pc = "done", !.outcome = "type_error",
                                       !.log = <<"enhance">>]
                     ELSE [base EXCEPT !.pc = "embedded", !.enhanced = e.result,
                                       !.embedding = Embed(e.result),
                                       !.log = <<"enhance", "embed">>]
             IN  embedded(enhance_query(tb, query))

Shortest(a, b, c) ==
    IF Len(a) <= Len(b) /\ Len(a) <= Len(c) THEN Len(a)
    ELSE IF Len(b) <= Len(c) THEN Len(b) ELSE Len(c)

\* Mutant of retrieve_results: the distances are read in reverse order.
retrieve_results_reversed(raw) ==
    [i \in 1..Shortest(raw.documents, raw.metadatas, raw.distances) |->
        [content |-> raw.documents[i], metadata |-> raw.metadatas[i],
         distance |-> raw.distances[Len(raw.distances) + 1 - i]]]

\* lines 246-247: zip(documents[0], metadatas[0], distances[0])
retrieve_results(raw) ==
    [i \in 1..Shortest(raw.documents, raw.metadatas, raw.distances) |->
        [content |-> raw.documents[i], metadata |-> raw.metadatas[i],
         distance |-> raw.distances[i]]]

StoreQueries == { <<"s","e","m"," ","3">>, <<"h","i">> }

\* chat(query, n_context) / retrieve_context(query, n_results) up to line 240
ChatCheck ==
    /\ ch.pc = "idle"
    /\ \E query \in StoreQueries, k \in 1..MaxK :
          /\ ch' = chat_check(collection, Tables, query, k)
          /\ SetTables(IF collection.set THEN tables_after_enhance(Tables, query)
                       ELSE Tables)
    /\ UNCHANGED <<admissionsVars, serverVars, ld, eq, collection, store, nextUid, rb>>

\* lines 241-247: the index is queried through self.collection
ChatQuery ==
    /\ ch.pc = "embedded"
    /\ ch' = IF ~Live(store, collection)
             THEN [ch EXCEPT !.pc = "done", !.outcome = "index_error",
                             !.log = Append(@, "query"), !.rbAtQuery = rb.pc]
             ELSE LET entries == store[collection.name].entries
                      raw == collection_query(entries, ch.embedding, ch.k)
                  IN  [ch EXCEPT !.pc = "retrieved", !.raw = raw,
                                 !.results = retrieve_results(raw),
                                 !.log = Append(@, "query"), !.rbAtQuery = rb.pc,
                                 !.n = Len(entries),
                                 !.partial = (rb.pc = "adding"
                                                /\ Len(entries) < Len(rb.docs.documents))]
    /\ UNCHANGED <<admissionsVars, serverVars, tableVars, ld, eq, collection, store,
                   nextUid, rb>>

\* line 261: one context block
context_part(doc) ==
    <<"Context Snippet (Source: ">>
        \o StrOf(Get(doc.metadata, "source", S(<<"unknown">>)))
        \o <<", Course: ">>
        \o StrOf(Get(doc.metadata, "course_code", NA))
        \o <<"):\n">> \o doc.content

\* lines 260-264
context_text(context_docs) ==
    Join(<<"\n---\n">>, [i \in 1..Len(context_docs) |-> context_part(context_docs[i])])

\* the fixed parts of the two templates, lines 267-283 and 288-303
DefaultHead == "You are a precise and helpful academic assistant for a university syllabus. [...] Context Information:\n---\n"
DefaultTail == "\n\nInstructions:\n1. Synthesize a coherent, friendly answer [...] 5. Be direct and clear in your response.\n\nAnswer:"
SyllabusHead == "You are a precise academic assistant. A student is asking specifically for the syllabus for a course. [...] Context Information:\n---\n"
SyllabusTail == "\n\nInstructions:\n1. Find the syllabus units and topics in the context. [...] 4. If the syllabus unit information is not available in the context, explicitly state that.\n\nAnswer:"
Question == "\n---\n\nStudent's Question: "

kSyllabus == <<"s","y","l","l","a","b","u","s">>
Keywords ==
    << <<"b","o","o","k">>, <<"o","v","e","r","v","i","e","w">>,
       <<"c","r","e","d","i","t">>, <<"o","u","t","c","o","m","e">>,
       <<"p","r","e","r","e","q","u","i","s","i","t","e">> >>

\* Mutant of compose_prompt: the narrow template is refused only when all
\* the keywords appear in the query.
compose_prompt_all(query, context_docs) ==
    LET query_lower == lower(query)
    IN  IF Contains(query_lower, kSyllabus)
            /\ ~(\A i \in 1..Len(Keywords) : Contains(query_lower, Keywords[i]))
        THEN <<SyllabusHead>> \o context_text(context_docs) \o <<Question>> \o query
                \o <<SyllabusTail>>
        ELSE <<DefaultHead>> \o context_text(context_docs) \o <<Question>> \o query
                \o <<DefaultTail>>

\* lines 260-303: the prompt of generate_enhanced_response
compose_prompt(query, context_docs) ==
    LET query_lower == lower(query)
    IN  IF Contains(query_lower, kSyllabus)
            /\ ~(\E i \in 1..Len(Keywords) : Contains(query_lower, Keywords[i]))
        THEN <<SyllabusHead>> \o context_text(context_docs) \o <<Question>> \o query
                \o <<SyllabusTail>>
        ELSE <<DefaultHead>> \o context_text(context_docs) \o <<Question>> \o query
                \o <<DefaultTail>>

GeneratorOutcomes == { "text", "api_key_error", "error" }

\* str(e) of what the Generator raised
error_message(g) ==
    IF g = "api_key_error"
    THEN <<"400 ", "API key not valid", ". Please pass a valid API key.">>
    ELSE <<"503 The model is overloaded.">>

ApiKeyMessage == "Sorry, there is an issue with the server's API key configuration. Please contact the administrator."

\* lines 305-312
response_text(g) ==
    IF g = "text" THEN <<"response.text">>
    ELSE IF Contains(error_message(g), <<"API key not valid">>)
         THEN <<ApiKeyMessage>>
         ELSE <<"Sorry, I encountered an error generating the response: ">>
                 \o error_message(g)

\* Mutant of generate_enhanced_response: only the best match reaches the
\* prompt.
generate_enhanced_response_first(query, context_docs, g) ==
    [prompt |-> compose_prompt(query, SubSeq(context_docs, 1, Min({1, Len(context_docs)}))),
     text |-> response_text(g)]

\* lines 260-312
generate_enhanced_response(query, context_docs, g) ==
    [prompt |-> compose_prompt(query, context_docs), text |-> response_text(g)]

\* lines 319-329
ChatGenerate ==
    /\ ch.pc = "retrieved"
    /\ \E g \in GeneratorOutcomes :
          LET r == generate_enhanced_response(ch.query, ch.results, g)
          IN  ch' = [ch EXCEPT !.pc = "done", !.outcome = "answered", !.gen = g,
                               !.prompt = r.prompt, !.answer = r.text,
                               !.log = @ \o <<"compose", "generate">>]
    /\ UNCHANGED <<admissionsVars, serverVars, tableVars, ld, eq, collection, store,
                   nextUid, rb>>

\* the caller takes the response or the exception
ChatDone ==
    /\ ch.pc = "done"
    /\ ch' = NoChat
    /\ UNCHANGED <<admissionsVars, serverVars, tableVars, ld, eq, collection, store,
                   nextUid, rb>>

\* Queries put to generate_enhanced_response: up to MaxParts of these
\* parts, separated by single spaces
PromptParts ==
    { <<"s","y","l","l","a","b","u","s">>,
      <<"S","Y","L","L","A","B","U","S">>,
      <<"s","y","l","a","b","u","s">>,
      <<"t","e","x","t","B","o","o","k","s">>,
      <<"c","r","e","d","i","t","s">>,
      <<"O","v","e","r","v","i","e","w">>,
      <<"o","u","t","c","o","m","e">>,
      <<"p","r","e","r","e","q","u","i","s","i","t","e","s">>,
      <<"2","3","B","S","1","1","0","1">> }
PromptQueries == { Join(<<" ">>, ps) : ps \in SeqsUpTo(PromptParts, MaxParts) }

\* context documents as retrieve_context returns them
dUnit ==
    [content |-> <<"Unit 1 of Maths">>,
     metadata |-> [source |-> S(<<"syllabus">>), course_code |-> S(c23BS1101)],
     distance |-> 1]
dFaq ==
    [content |-> <<"Question: q Answer: a">>,
     metadata |-> [source |-> S(<<"faq">>), category |-> S(<<"general">>)],
     distance |-> 2]
PromptContexts == { <<>>, <<dUnit>>, <<dUnit, dFaq>> }

\* chatbot.generate_enhanced_response(query, context_docs), lines 249-312,
\* called on its own
GenerateEnhancedResponse ==
    /\ ch.pc = "idle"
    /\ \E query \in PromptQueries, context_docs \in PromptContexts,
          g \in GeneratorOutcomes :
          LET r == generate_enhanced_response(query, context_docs, g)
          IN  ch' = [NoChat EXCEPT !.pc = "done", !.outcome = "answered",
                                   !.query = query, !.results = context_docs,
                                   !.gen = g, !.prompt = r.prompt, !.answer = r.text,
                                   !.log = <<"compose", "generate">>]
    /\ UNCHANGED <<admissionsVars, serverVars, tableVars, ld, eq, collection, store,
                   nextUid, rb>>

\* the data of the store scenarios: few records, and FAQ sets below and
\* above one batch
OptLarge ==
    [present |-> TRUE,
     faq_dataset |-> [i \in 1..(batch_size + 1) |->
                         [question |-> S(<<"q">> \o StrOfInt(i)), answer |-> S(<<"a">>)]],
     concept_mapping |-> <<>>]
StoreDatasets == { <<NoNameCourse>>, <<MlCourse>>, <<MathsCourse, MlCourse>> }
\* an FAQ entry whose category is a number
OptNumbered ==
    [present |-> TRUE,
     faq_dataset |-> << [question |-> S(<<"q">>), answer |-> S(<<"a">>),
                         category |-> N(7)] >>,
     concept_mapping |-> <<>>]
StoreOptimizations == { OptMissing, OptLarge, OptNumbered }

LoadStore == LoadDataFrom(StoreDatasets, StoreOptimizations)

\* the data of the batch scenarios: with the 0 or 2 documents of the course
\* records, document counts just below, at and just above one and two
\* batches
OptFaqs(n) ==
    [present |-> TRUE,
     faq_dataset |-> [i \in 1..n |->
                         [question |-> S(<<"q">> \o StrOfInt(i)), answer |-> S(<<"a">>)]],
     concept_mapping |-> <<>>]
BatchDatasets == { <<NoNameCourse>>, <<MlCourse>> }
BatchOptimizations ==
    { OptFaqs(n) : n \in {0, batch_size - 2, batch_size - 1,
                          2 * batch_size - 2, 2 * batch_size - 1} }

LoadBatches == LoadDataFrom(BatchDatasets, BatchOptimizations)

(***************************************************************************)
(* src/app.py : get_rag_response, lines 151-183                            *)
(***************************************************************************)
NotInitializedAnswer == "The knowledge base is not yet initialized. Please make sure university_guide.md exists and restart the server."

Questions == { "How do I apply?", "What are the fees?" }

\* g: what rag_chain.invoke does (line 179)
get_rag_response(initialized, retriever, question, g) ==
    IF ~initialized \/ retriever = "None" THEN <<NotInitializedAnswer>>
    ELSE IF g = "text" THEN <<"answer">>
         ELSE <<"Sorry, an error occurred: ">> \o error_message(g)

GetRagResponse ==
    /\ \E question \in Questions, g \in GeneratorOutcomes :
          rr' = [called |-> TRUE, question |-> question, gen |-> g,
                 answer |-> get_rag_response(is_rag_initialized,
                                             vector_store_retriever, question, g)]
    /\ UNCHANGED <<vector_store_retriever, is_rag_initialized, fq, irc, courseVars,
                   course_chatbots, http>>

(***************************************************************************)
(* src/chatbot_script.py : setup_enhanced_chatbot (331-354) and chat       *)
(* (314-329) as one call each                                              *)
(***************************************************************************)
\* The data directory: the syllabus_data.json files that exist, by the
\* directory they are in
DataFiles ==
    << [key |-> data_path(DATA_ROOT_DIRECTORY, <<"c","s">>, <<"r","2","0">>),
        val |-> [records |-> <<MlCourse>>, opt |-> OptMissing]],
       [key |-> data_path(DATA_ROOT_DIRECTORY, <<"e","e">>, NoRegulation),
        val |-> [records |-> <<NoMetadataCourse>>, opt |-> OptMissing]] >>

NewTables ==
    [chunks_data |-> <<>>, faq_data |-> <<>>, concept_mapping |-> <<>>,
     course_details |-> <<>>, semester_course_map |-> <<>>]

NoChatbot == [tables |-> NewTables, collection |-> NoCollection, path |-> <<>>]

\* create_enhanced_vector_store as one call (lines 147-191) on the tables tb;
\* encodeFails: the embedding model raises in the first batch
create_enhanced_vector_store(st, uid, tb, name, deleteFails, encodeFails) ==
    LET c == create_collection(delete_collection(st, name, deleteFails), name, uid)
        handle == [set |-> TRUE, name |-> name, uid |-> c.uid]
        d == documents_of(tb)
    IN  IF c.raised THEN [raised |-> TRUE, store |-> c.store, collection |-> NoCollection]
        ELSE IF faq_raises(tb.faq_data) \/ (encodeFails /\ Len(d.documents) > 0)
             THEN [raised |-> TRUE, store |-> c.store, collection |-> handle]
             ELSE [raised |-> FALSE, collection |-> handle,
                   store |-> collection_add(c.store, handle,
                                [j \in 1..Len(d.documents) |-> Embed(d.documents[j])],
                                d.documents, d.metadatas, d.ids)]

SetupResult(outcome, chatbot, st) == [outcome |-> outcome, chatbot |-> chatbot, store |-> st]

\* lines 351-354: the new instance loads the file and builds its collection
setup_enhanced_chatbot(st, uid, gemini_api_key, department, regulation, delFails, encFails) ==
    LET path == data_path(DATA_ROOT_DIRECTORY, department, regulation)
        name == collection_name(department, regulation)
        Built(l, cr) ==
            IF l.raised THEN SetupResult("error", NoChatbot, st)
            ELSE IF cr.raised THEN SetupResult("error", NoChatbot, cr.store)
            ELSE SetupResult("ok", [tables |-> l.tables, collection |-> cr.collection,
                                    path |-> path], cr.store)
        Loaded(l) ==
            Built(l, create_enhanced_vector_store(st, uid, l.tables, name,
                                                  delFails, encFails))
        file == Lookup(DataFiles, path)
    IN  IF gemini_api_key = "" THEN SetupResult("value_error", NoChatbot, st)
        ELSE IF ~HasKey(DataFiles, path) THEN SetupResult("file_not_found", NoChatbot, st)
        ELSE Loaded(load_data(NewTables, file.records, file.opt))

n_context == 10

\* lines 320-323: the set of "code - name" of the documents with a course code
relevant_courses(context_docs) ==
    { StrOf(Get(context_docs[i].metadata, "course_code", Null)) \o <<" - ">>
          \o StrOf(Get(context_docs[i].metadata, "course_name", Null)) :
        i \in { j \in 1..Len(context_docs) :
                  Truthy(Get(context_docs[j].metadata, "course_code", Null)) } }

\* chat(query) on the instance chatbot, lines 314-329, with the default
\* n_context; g: what the Generator does
chat(st, chatbot, query, g) ==
    LET answered(context_docs) ==
            [raised |-> FALSE,
             outcome |-> IF g = "text" THEN "answered" ELSE "apology",
             answer |-> generate_enhanced_response(query, context_docs, g).text,
             context_used |-> Len(context_docs),
             relevant_courses |-> relevant_courses(context_docs)]
        retrieved(c) ==
            IF c.pc = "done" THEN [raised |-> TRUE, outcome |-> c.outcome, answer |-> <<>>,
                                   context_used |-> 0, relevant_courses |-> {}]
            ELSE IF ~Live(st, chatbot.collection)
                 THEN [raised |-> TRUE, outcome |-> "index_error", answer |-> <<>>,
                       context_used |-> 0, relevant_courses |-> {}]
                 ELSE answered(retrieve_results(
                          collection_query(st[chatbot.collection.name].entries,
                                           c.embedding, n_context)))
    IN  retrieved(chat_check(chatbot.collection, chatbot.tables, query, n_context))

(***************************************************************************)
(* src/integrated_main.py and src/app.py : the HTTP handlers               *)
(***************************************************************************)
\* how often a request invoked the admissions retriever, the admissions
\* Generator and generate_followup_questions
NoCalls == [retriever |-> 0, generator |-> 0, followup |-> 0]

NoResponse ==
    [handler |-> "", status |-> 0, cause |-> "", answer |-> <<>>,
     path |-> <<>>, served |-> <<>>, touched |-> FALSE, calls |-> NoCalls,
     key |-> <<>>]

Response(handler, status, cause, answer) ==
    [NoResponse EXCEPT !.handler = handler, !.status = status, !.cause = cause,
                       !.answer = answer]

\* integrated_main.py line 355
chatbot_key(department, regulation) ==
    IF regulation # NoRegulation THEN department \o <<"_">> \o regulation
    ELSE department

\* Mutant of in_cache: the cache is never consulted.
in_cache_never(chatbots, key) == FALSE

\* integrated_main.py line 357: chatbot_key in course_chatbots
in_cache(chatbots, key) == HasKey(chatbots, key)

GeminiKeys == { "", "key" }
HttpQueries == { <<"s","e","m"," ","3">> }

\* handle_course_chat(request), integrated_main.py 345-375.  The handler has
\* no await: one request is one step.
HandleCourseChat ==
    \E dept \in Departments, reg \in Regulations, user_query \in HttpQueries,
       GEMINI_API_KEY \in GeminiKeys, g \in GeneratorOutcomes,
       deleteFails \in BOOLEAN, encodeFails \in BOOLEAN :
      LET department == lower(dept)
          regulation == lower(reg)
          key == chatbot_key(department, regulation)
          path == data_path(DATA_ROOT_DIRECTORY, department, regulation)
          cached == in_cache(course_chatbots, key)
          Reply(status, cause, answer, served, st) ==
              [handler |-> "handle_course_chat", status |-> status, cause |-> cause,
               answer |-> answer, path |-> path, served |-> served,
               touched |-> (st # store), calls |-> NoCalls, key |-> key]
          \* lines 369-375
          Answer(chatbot, st) ==
              \E c \in { chat(st, chatbot, user_query, g) } :
                 http' = IF c.raised
                         THEN Reply(500, IF c.outcome = "type_error"
                                         THEN "chat_failed" ELSE "missing_index",
                                    <<>>, chatbot.path, st)
                         ELSE Reply(200, IF g = "text" THEN "none"
                                         ELSE "generation_failure",
                                    c.answer, chatbot.path, st)
      IN  /\ cached \/ nextUid <= MaxRebuilds
          /\ IF GEMINI_API_KEY = ""
             THEN /\ http' = Reply(500, "missing_key", <<>>, <<>>, store)
                  /\ UNCHANGED <<course_chatbots, store, nextUid>>
             ELSE IF cached
             THEN /\ Answer(Lookup(course_chatbots, key), store)
                  /\ UNCHANGED <<course_chatbots, store, nextUid>>
             ELSE \E su \in { setup_enhanced_chatbot(store, nextUid, GEMINI_API_KEY,
                                    department, regulation, deleteFails, encodeFails) } :
                  /\ store' = su.store
                  /\ nextUid' = IF su.store # store THEN nextUid + 1 ELSE nextUid
                  /\ IF su.outcome # "ok"
                     THEN /\ http' = IF su.outcome = "file_not_found"
                                     THEN Reply(404, "missing_dataset", <<>>, <<>>, su.store)
                                     ELSE Reply(500, "setup_failed", <<>>, <<>>, su.store)
                          /\ UNCHANGED course_chatbots
                     ELSE /\ course_chatbots' = Put(course_chatbots, key, su.chatbot)
                          /\ Answer(su.chatbot, su.store)
          /\ UNCHANGED <<admissionsVars, tableVars, ld, eq, collection, rb, ch, rr>>

\* the process is started again: the cache is empty, the collections of the
\* persistent client remain (integrated_main.py 55, chatbot_script.py 45)
ServerRestart ==
    /\ course_chatbots # <<>>
    /\ course_chatbots' = <<>>
    /\ http' = NoResponse
    /\ UNCHANGED <<admissionsVars, courseVars, rr>>

\* another server process on the same ./chroma_db_by_dept runs
\* create_enhanced_vector_store up to its delete (chatbot_script.py 149)
OtherProcessDeletes ==
    /\ \E name \in CollectionNames :
          /\ store[name].exists
          /\ store' = delete_collection(store, name, FALSE)
    /\ http' = NoResponse
    /\ UNCHANGED <<admissionsVars, tableVars, ld, eq, collection, nextUid, rb, ch, rr,
                   course_chatbots>>

\* The body both admissions handlers share: get_rag_response, then
\* generate_followup_questions on the history with the two new turns
\* (integrated_main.py 387-399, app.py 209-219)
ask(handler, question, chat_history, g, retr, gen) ==
    LET ai_response == get_rag_response(is_rag_initialized, vector_store_retriever,
                                        question, g)
        \* rag_chain.invoke (app.py 179) runs the retriever and the Generator
        chain == IF is_rag_initialized /\ vector_store_retriever # "None" THEN 1 ELSE 0
        current_chat_history ==
            chat_history \o << [type |-> "user", message |-> question],
                               [type |-> "ai", message |-> "ai_response"] >>
        replied(suggested) ==
            [(IF suggested.outcome = "raised"
              THEN Response(handler, 500, "followup_failed", <<>>)
              ELSE Response(handler, 200,
                            IF g = "text" /\ vector_store_retriever # "None" THEN "none"
                            ELSE "generation_failure",
                            ai_response))
             EXCEPT !.calls = [retriever |-> chain + suggested.retrieverCalls,
                               generator |-> chain + suggested.generatorCalls,
                               followup |-> 1]]
    IN  replied(generate_followup_questions(current_chat_history,
                                            vector_store_retriever, retr, gen))

FollowupBehaviours ==
    { [raises |-> TRUE, reply |-> <<>>],
      [raises |-> FALSE,
       reply |-> <<LBR, Str("Q1?"), COMMA, Str("Q2?"), COMMA, Str("Q3?"), COMMA,
                   Str("Q4?"), RBR>>] }

\* ask_admissions_question(payload), integrated_main.py 378-399
ask_admissions_question(question, chat_history, g, retr, gen) ==
    IF ~is_rag_initialized
    THEN Response("ask_admissions_question", 400, "not_initialized", <<>>)
    ELSE ask("ask_admissions_question", question, chat_history, g, retr, gen)

AskAdmissionsQuestion ==
    /\ \E question \in Questions, g \in GeneratorOutcomes, retr \in {"ok", "raise"},
          gen \in FollowupBehaviours :
          http' = ask_admissions_question(question, <<>>, g, retr, gen)
    /\ UNCHANGED <<admissionsVars, courseVars, rr, course_chatbots>>

NotInitializedContent == "Knowledge base not initialized. Please make sure university_guide.md exists and restart the server."

\* Mutant of ask_question: the handler leaves the initialization check to
\* get_rag_response.
ask_question_unguarded(question, chat_history, g, retr, gen) ==
    ask("ask_question", question, chat_history, g, retr, gen)

\* ask_question(payload), app.py 197-219
ask_question(question, chat_history, g, retr, gen) ==
    IF ~is_rag_initialized
    THEN Response("ask_question", 400, "not_initialized", <<NotInitializedContent>>)
    ELSE ask("ask_question", question, chat_history, g, retr, gen)

AskQuestion ==
    /\ \E question \in Questions, g \in GeneratorOutcomes, retr \in {"ok", "raise"},
          gen \in FollowupBehaviours :
          http' = ask_question(question, <<>>, g, retr, gen)
    /\ UNCHANGED <<admissionsVars, courseVars, rr, course_chatbots>>

(***************************************************************************)
(* Specifications                                                          *)
(***************************************************************************)
InitServer ==
    /\ course_chatbots = <<>>
    /\ http = NoResponse

Init == InitAdmissions /\ InitCourse /\ InitServer

NextAdmissions == InitializeRagChain \/ GenerateFollowupQuestions \/ FollowupDone

SpecAdmissions == Init /\ [][NextAdmissions]_vars

NextLoad == LoadData \/ NewChatbot

SpecLoad == Init /\ [][NextLoad]_vars

NextSyllabus == LoadSyllabus \/ NewChatbot

SpecSyllabus == Init /\ [][NextSyllabus]_vars

NextEnhance == LoadSmall \/ EnhanceQuery \/ EnhanceAgain \/ NewChatbot

SpecEnhance == Init /\ [][NextEnhance]_vars

NextStore ==
    \/ LoadStore \/ NewChatbot
    \/ RebuildDelete \/ RebuildCreate \/ RebuildAddBatch \/ RebuildReturn \/ RebuildDone
    \/ ChatCheck \/ ChatQuery \/ ChatGenerate \/ ChatDone

SpecStore == Init /\ [][NextStore]_vars

NextBatch ==
    \/ LoadBatches \/ NewChatbot
    \/ RebuildDelete \/ RebuildCreate \/ RebuildAddBatch \/ RebuildReturn \/ RebuildDone

SpecBatch == Init /\ [][NextBatch]_vars

NextPrompt ==
    GenerateEnhancedResponse \/ ChatDone \/ InitializeRagChain \/ GetRagResponse

SpecPrompt == Init /\ [][NextPrompt]_vars

NextHttp ==
    \/ HandleCourseChat \/ ServerRestart \/ OtherProcessDeletes
    \/ InitializeRagChain \/ AskAdmissionsQuestion \/ AskQuestion

SpecHttp == Init /\ [][NextHttp]_vars

(***************************************************************************)
(* Claims about the follow-up suggester (SpecAdmissions)                   *)
(***************************************************************************)
\* retrieval, generation or parsing failed in the recorded call
FollowupFailed ==
    \/ fq.retr = "raise"
    \/ fq.gen.raises
    \/ literal_eval(fq.gen.reply).kind # "list"
    \/ ~all_str(literal_eval(fq.gen.reply).items)

\* C1: generate_followup_questions never lets an exception escape: for every
\* chat history of any shape and every behaviour of the retriever and of the
\* Generator the call returns a list, and it returns the default list
\* whenever retrieval, generation or parsing fails.
C1_NeverRaises ==
    fq.called =>
        /\ fq.out.outcome = "returned"
        /\ (fq.out.retrieverCalls > 0 /\ FollowupFailed
                => fq.out.result = get_default_questions)

\* C2: a Generator-derived (non-default) result of
\* generate_followup_questions is a list of exactly 4 strings.
C2_ExactlyFour ==
    (fq.called /\ fq.out.outcome = "returned" /\ fq.out.generatorCalls > 0
        /\ fq.out.result # get_default_questions)
        => Len(fq.out.result) = 4

\* every turn is a ChatTurn {type, message} and none has type "user"
NoUserTurn(h) ==
    \A i \in 1..Len(h) : "type" \in DOMAIN h[i] /\ h[i]["type"] # "user"

\* C3: generate_followup_questions returns exactly the fixed 5-item default
\* list, without invoking the retriever or the Generator, whenever the chat
\* history is empty, no retriever is configured, or the history (a sequence
\* of ChatTurn records) contains no turn with type "user".
C3_DefaultsWithoutCalls ==
    (fq.called /\ (fq.history = <<>> \/ fq.retriever = "None" \/ NoUserTurn(fq.history)))
        => /\ fq.out.outcome = "returned"
           /\ fq.out.result = get_default_questions
           /\ Len(fq.out.result) = 5
           /\ fq.out.retrieverCalls = 0
           /\ fq.out.generatorCalls = 0

\* a call with a retriever configured and a non-empty history of "ai" turns
\* only has returned the defaults
C3_Witness ==
    /\ fq.called
    /\ fq.retriever = "retriever"
    /\ fq.history # <<>>
    /\ NoUserTurn(fq.history)
    /\ fq.retr = "ok" /\ ~fq.gen.raises
    /\ fq.out.result = get_default_questions

(***************************************************************************)
(* Claims about ingestion (SpecLoad)                                       *)
(***************************************************************************)
\* course_code, course_name or semester is absent: the key is missing, or
\* the whole metadata mapping is
Absent(course) ==
    \/ "metadata" \notin DOMAIN course
    \/ "course_code" \notin DOMAIN course.metadata
    \/ "course_name" \notin DOMAIN course.metadata
    \/ "semester" \notin DOMAIN course.metadata

\* the three fields are present and non-empty
WellFormed(course) == ~Absent(course) /\ ~skipped(course)

HasChunkOf(course) ==
    \E j \in 1..Len(chunks_data) : chunks_data[j].metadata = metadata_of(course)

HasEntryOf(course) ==
    \E j \in 1..Len(semester_course_map) :
        \E m \in 1..Len(semester_course_map[j].val) :
            /\ semester_course_map[j].val[m].course_code
                   = Get(metadata_of(course), "course_code", Null)
            /\ semester_course_map[j].val[m].course_name
                   = Get(metadata_of(course), "course_name", Null)

\* C4: for every input sequence of course records load_data completes
\* without raising; every record whose course_code, course_name or semester
\* is absent contributes no chunk and no semester_course_map entry, and all
\* other records are still ingested.
C4_SkipsWithoutRaising ==
    ld.called =>
        /\ ~ld.raised
        /\ \A i \in 1..Len(ld.records) :
              /\ Absent(ld.records[i])
                    => ~HasChunkOf(ld.records[i]) /\ ~HasEntryOf(ld.records[i])
              /\ WellFormed(ld.records[i])
                    => HasChunkOf(ld.records[i]) /\ HasEntryOf(ld.records[i])

(***************************************************************************)
(* Claims about query enhancement (SpecEnhance)                            *)
(***************************************************************************)
\* rule 1: the query refers to a semester that semester_course_map holds
SemRuleFires ==
    /\ sem_search(lower(eq.query)).ok
    /\ HasKey(semester_course_map, sem_search(lower(eq.query)).group)
\* rule 2: a course code appears in the query and exists in course_details
CodeRuleFires ==
    /\ code_search(upper(eq.query)).ok
    /\ HasKey(course_details, S(code_search(upper(eq.query)).group))
\* rule 3 for the i-th concept key
ConceptRuleFires(i) == Contains(lower(eq.query), lower(concept_mapping[i].key))

\* the contributions of the three rules, as texts
SemContribution ==
    IF SemRuleFires
    THEN LET courses == Lookup(semester_course_map, sem_search(lower(eq.query)).group)
         IN  [i \in 1..Len(courses) |-> StrOf(courses[i].course_name)]
    ELSE <<>>
CodeContribution ==
    IF CodeRuleFires
    THEN LET course == Lookup(course_details, S(code_search(upper(eq.query)).group))
         IN  << IF "course_name" \in DOMAIN course.metadata
                    /\ course.metadata.course_name.t = "str"
                THEN course.metadata.course_name.s ELSE <<>> >>
    ELSE <<>>
RECURSIVE ConceptContribution(_)
ConceptContribution(i) ==
    IF i > Len(concept_mapping) THEN <<>>
    ELSE (IF ConceptRuleFires(i) THEN FirstTwo(concept_mapping[i].val) ELSE <<>>)
         \o ConceptContribution(i + 1)
Contributions == SemContribution \o CodeContribution \o ConceptContribution(1)

\* C9: enhance_query returns the original query followed, space-separated,
\* by the contributions of all matching rules in the fixed order: the course
\* names of the semester referenced (insertion order), the name of the
\* course whose code appears in the query, the first 2 related course
\* identifiers of every concept key found in the lowercased query.
C9_AllRulesInOrder ==
    eq.called =>
        /\ ~eq.raised
        /\ eq.result = IF Contributions = <<>> THEN eq.query
                       ELSE eq.query \o <<" ">> \o Join(<<" ">>, Contributions)

\* C10: enhance_query returns the original query character for character
\* whenever no rule fires, and whenever its result differs from the query
\* the appended part contains at least one non-empty term.
C10_NoEmptyAppendage ==
    (eq.called /\ ~eq.raised) =>
        /\ (~SemRuleFires /\ ~CodeRuleFires
                /\ (\A i \in 1..Len(concept_mapping) : ~ConceptRuleFires(i))
              => eq.result = eq.query)
        /\ (eq.result # eq.query
              => /\ StartsWith(eq.result, 1, eq.query)
                 /\ \E i \in (Len(eq.query) + 1)..Len(eq.result) : eq.result[i] # " ")

\* the terms appended by the first call bring no match the query did not
\* have: the same semester reference, the same course code, the same
\* concept keys are found in the query and in the enhanced text
NoNewMatch ==
    /\ sem_search(lower(eq.result)) = sem_search(lower(eq.query))
    /\ code_search(upper(eq.result)) = code_search(upper(eq.query))
    /\ \A i \in 1..Len(concept_mapping) :
          Contains(lower(eq.result), lower(concept_mapping[i].key))
              <=> Contains(lower(eq.query), lower(concept_mapping[i].key))

\* C11: if the terms enhance_query(q) appends introduce no new semester
\* reference, course code or concept-key match, then
\* enhance_query(enhance_query(q)) = enhance_query(q): nothing is appended a
\* second time.
C11_NothingAppendedTwice ==
    (eq.again.called /\ ~eq.again.raised /\ NoNewMatch)
        => eq.again.result = eq.result

(***************************************************************************)
(* Claims about the vector store and retrieval (SpecStore)                 *)
(***************************************************************************)
SameEntries(entries, d) ==
    /\ Len(entries) = Len(d.ids)
    /\ \A i \in 1..Len(entries) :
          /\ entries[i].id = d.ids[i]
          /\ entries[i].document = d.documents[i]
          /\ entries[i].metadata = d.metadatas[i]

\* C5: after create_enhanced_vector_store(name) returns, the collection
\* named name holds exactly the documents derived from the current
\* chunks_data, semester_course_map and faq_data, with nothing of an earlier
\* generation, whether or not the name existed before; so two rebuilds of
\* the same input leave the same size, ids and documents.
C5_FreshGeneration ==
    rb.pc = "returned" =>
        /\ store[rb.name].exists
        /\ SameEntries(store[rb.name].entries, documents_of(Tables))

\* a second generation, of more than one batch, built over a populated
\* collection, has returned
C5_Witness ==
    /\ rb.pc = "returned"
    /\ store[rb.name].uid = 2
    /\ Len(store[rb.name].entries) > batch_size

\* C6: a retrieve_context interleaved with a create_enhanced_vector_store
\* run on the same collection either fails with the not-initialized error
\* or returns results of a completely populated collection: never results
\* of a collection created but only partly filled, never another error.
C6_RebuildLooksAtomic ==
    /\ (ch.pc = "retrieved" => ~ch.partial)
    /\ (ch.pc = "done" /\ ch.rbAtQuery # "idle" => ch.outcome # "index_error")

\* C7: retrieve_context on a chatbot without an active collection fails
\* with the not-initialized error before any enhancement, embedding or
\* index query, and chat passes the error on without calling the Generator.
C7_NotInitializedFirst ==
    /\ (ch.pc # "idle" /\ ~ch.hadCollection) =>
          (ch.pc = "done" /\ ch.outcome = "not_initialized" /\ ch.log = <<>>)
    /\ (ch.outcome = "not_initialized" => ch.answer = <<>>)

\* a chat on a chatbot that has loaded its data but never built a
\* collection has ended
C7_Witness ==
    /\ ch.pc = "done"
    /\ ~ch.hadCollection
    /\ ld.called /\ ~ld.raised
    /\ ch.outcome = "not_initialized"

\* C8: retrieve_context(query, k) on a collection of n documents returns
\* exactly min(k, n) results in the order the Index ranked them, each
\* pairing content, metadata and distance of one Index match; with n < k it
\* neither pads, drops nor reorders.
C8_MinOfKAndN ==
    ch.pc = "retrieved" =>
        /\ Len(ch.results) = Min({ch.k, ch.n})
        /\ \A i \in 1..Len(ch.results) :
              /\ ch.results[i].content = ch.raw.documents[i]
              /\ ch.results[i].metadata = ch.raw.metadatas[i]
              /\ ch.results[i].distance = ch.raw.distances[i]
              /\ ch.results[i].distance
                    = Distance(Embed(ch.results[i].content), Embed(ch.enhanced))
        /\ \A i \in 1..(Len(ch.results) - 1) :
              ch.results[i].distance <= ch.results[i + 1].distance

\* a query asked for more than a fully built collection of two or more
\* documents holds, and the matches lie at different distances
C8_Witness ==
    /\ ch.pc = "retrieved"
    /\ ~ch.partial
    /\ ch.n >= 2 /\ ch.n < ch.k
    /\ Len(ch.results) = ch.n
    /\ ch.results[1].distance < ch.results[ch.n].distance


(***************************************************************************)
(* Claims about prompt composition and generation (SpecPrompt)             *)
(***************************************************************************)
IsSubSeq(w, t) == \E i \in 1..(Len(t) + 1) : StartsWith(t, i, w)

\* the query asks for the syllabus and for nothing the narrow template
\* leaves out
AsksSyllabusOnly(query) ==
    /\ Contains(lower(query), kSyllabus)
    /\ \A i \in 1..Len(Keywords) : ~Contains(lower(query), Keywords[i])

\* C12: generate_enhanced_response uses the narrow syllabus-only template
\* iff the lowercased query contains 'syllabus' and none of 'book',
\* 'overview', 'credit', 'outcome', 'prerequisite'; otherwise the default
\* template; both carry the rendered context blocks and the question.
C12_TemplateChoice ==
    ch.prompt # <<>> =>
        /\ ch.prompt[1] \in {SyllabusHead, DefaultHead}
        /\ (ch.prompt[1] = SyllabusHead <=> AsksSyllabusOnly(ch.query))
        /\ (ch.prompt[1] = SyllabusHead
              <=> ch.prompt[Len(ch.prompt)] = SyllabusTail)
        /\ (ch.prompt[1] = DefaultHead
              <=> ch.prompt[Len(ch.prompt)] = DefaultTail)
        /\ \A i \in 1..Len(ch.results) :
              IsSubSeq(<<"):\n">> \o ch.results[i].content, ch.prompt)
        /\ IsSubSeq(<<Question>> \o ch.query, ch.prompt)

\* the narrow template was chosen for a query in capitals, with context
C12_Witness ==
    /\ ch.prompt # <<>>
    /\ ch.prompt[1] = SyllabusHead
    /\ ~Contains(ch.query, kSyllabus)
    /\ Len(ch.results) = 2

\* the Generator failed inside the call that produced this answer
Apologises(gen, answer) ==
    gen \in {"api_key_error", "error"} =>
        /\ ~IsSubSeq(error_message(gen), answer)
        /\ (gen = "api_key_error" => answer = <<ApiKeyMessage>>)

\* C13: when the Generator fails, generate_enhanced_response and
\* get_rag_response return a generic apology that does not contain the
\* provider's raw error string, and a credential-configuration failure
\* yields the fixed administrator-facing message.
C13_NoRawError ==
    /\ (ch.pc = "done" /\ ch.outcome = "answered" => Apologises(ch.gen, ch.answer))
    /\ (rr.called /\ rr.answer # <<NotInitializedAnswer>>
          => Apologises(rr.gen, rr.answer))


(***************************************************************************)
(* Claims about the HTTP boundary (SpecHttp)                               *)
(***************************************************************************)
\* C14: at the HTTP boundary every condition that makes the query path
\* unanswerable (missing index, missing dataset, generation failure) ends
\* in a non-success status code, never in a success response whose answer
\* field carries the failure.
C14_FailuresHaveStatusCodes ==
    http.cause \in {"missing_index", "missing_dataset", "generation_failure",
                    "not_initialized"}
        => http.status \notin 200..299

\* C15: a course-chat request for a department/regulation without a
\* syllabus data file is answered 404, every other setup failure 500, and
\* the request deletes or creates no collection.  (Requests refused for the
\* missing server API key are left aside.)
C15_MissingDatasetIs404 ==
    (http.handler = "handle_course_chat" /\ http.cause # "missing_key") =>
        /\ (~HasKey(DataFiles, http.path) => http.status = 404 /\ ~http.touched)
        /\ (http.status = 404 => ~HasKey(DataFiles, http.path))
        /\ (http.cause = "setup_failed" => http.status = 500)

\* C19: collection name and cache key are functions of the dataset identity
\* (department, regulation), and two identities with different data
\* directories never get the same collection name or cache key: no two
\* datasets share one collection or one cached chatbot.
C19_OneChatbotPerDataset ==
    /\ \A i \in 1..Len(course_chatbots) :
          \A d \in Departments, r \in Regulations :
             (chatbot_key(lower(d), lower(r)) = course_chatbots[i].key
                \/ collection_name(lower(d), lower(r))
                      = course_chatbots[i].val.collection.name)
               => data_path(DATA_ROOT_DIRECTORY, lower(d), lower(r))
                     = course_chatbots[i].val.path
    /\ (http.handler = "handle_course_chat" /\ http.status = 200
          => http.served = http.path)


(***************************************************************************)
(* Claims about the chunks of a course record (SpecLoad)                   *)
(***************************************************************************)
\* the accepted records of the load with metadata m, and the chunks of one
\* type made from metadata m
NRecords(m) ==
    Cardinality({ i \in 1..Len(ld.records) :
                    ~skipped(ld.records[i]) /\ ld.records[i].metadata = m })
ChunksOf(m, type) ==
    { j \in 1..Len(chunks_data) :
        chunks_data[j].metadata = m /\ chunks_data[j].chunk_type = type }

OutcomesOf(course) == Get(course.metadata, "course_outcomes", NoList)
TextbooksOf(course) == Get(Get(course, "books", NoBooks), "textbooks", NoList)
RefBooksOf(course) == Get(Get(course, "books", NoBooks), "reference_books", NoList)
HasBooks(course) == TextbooksOf(course).l # <<>> \/ RefBooksOf(course).l # <<>>

\* C16: every accepted course record yields exactly 1 overview chunk,
\* exactly 1 outcomes chunk holding every outcome string if course_outcomes
\* is non-empty and none otherwise, exactly 1 books chunk if textbooks or
\* reference_books is non-empty and none otherwise; a single record with
\* one outcome, no syllabus, no books and no FAQ gives 2 chunks and 1
\* semester_summary document.
C16_ChunksPerRecord ==
    (ld.called /\ ~ld.raised) =>
        /\ \A i \in 1..Len(ld.records) :
              ~skipped(ld.records[i]) =>
                LET course == ld.records[i]
                    m == course.metadata
                IN  /\ Cardinality(ChunksOf(m, "overview")) = NRecords(m)
                    /\ Cardinality(ChunksOf(m, "outcomes"))
                          = IF OutcomesOf(course).l # <<>> THEN NRecords(m) ELSE 0
                    /\ \A j \in ChunksOf(m, "outcomes") :
                          \A o \in 1..Len(OutcomesOf(course).l) :
                             IsSubSeq(OutcomesOf(course).l[o].s, chunks_data[j].content)
                    /\ Cardinality(ChunksOf(m, "books"))
                          = IF HasBooks(course) THEN NRecords(m) ELSE 0
                    /\ \A j \in ChunksOf(m, "books") :
                          /\ TextbooksOf(course).l = <<>>
                                => IsSubSeq(<<"Textbooks: ", "None listed">>,
                                            chunks_data[j].content)
                          /\ RefBooksOf(course).l = <<>>
                                => IsSubSeq(<<"Reference Books: ", "None listed">>,
                                            chunks_data[j].content)
        /\ (ld.records = <<OneOutcomeCourse>> /\ faq_data = <<>>)
              => /\ Len(chunks_data) = 2
                 /\ Len(documents_of(Tables).ids) = 3
                 /\ documents_of(Tables).metadatas[3].chunk_type = S(<<"semester_summary">>)

\* a load of two accepted records has returned: one with reference books
\* only, one with a single outcome and nothing else
C16_Witness ==
    /\ ld.called /\ ~ld.raised
    /\ ld.records = <<RefBooksCourse, OneOutcomeCourse>>
    /\ Len(chunks_data) = 4


(***************************************************************************)
(* Further claims about the vector store and chat (SpecStore)              *)
(***************************************************************************)
\* C17: in every document written to the collection (syllabus chunks,
\* semester_summary and FAQ chunks) every metadata value is a string and
\* none is null, whatever values the records and FAQ entries carry.
C17_MetadataAllStrings ==
    \A name \in CollectionNames :
        \A i \in 1..Len(store[name].entries) :
            \A k \in DOMAIN store[name].entries[i].metadata :
                store[name].entries[i].metadata[k].t = "str"


\* C18: answering a query writes no shared state: enhance_query,
\* retrieve_context, generate_enhanced_response and chat leave chunks_data,
\* faq_data, course_details, semester_course_map, concept_mapping and the
\* collection handle unchanged, whatever the query and the outcome; only
\* construction, load_data and create_enhanced_vector_store write them.
C18_AnsweringWritesNothing ==
    [][ /\ (ch' # ch => UNCHANGED <<tableVars, collection>>)
        /\ (~UNCHANGED <<tableVars, collection>> => (ld' # ld \/ rb' # rb)) ]_vars

\* a chat whose query was enhanced with course names has been answered, and
\* the semester it named is still in semester_course_map
C18_Witness ==
    /\ ch.pc = "done" /\ ch.outcome = "answered"
    /\ ch.enhanced # ch.query
    /\ HasKey(semester_course_map, sem_search(lower(ch.query)).group)


\* the prompt is built from the raw query q and the documents docs
ComposedFrom(prompt, q, docs) ==
    \E head \in {DefaultHead, SyllabusHead}, tail \in {DefaultTail, SyllabusTail} :
        prompt = <<head>> \o context_text(docs) \o <<Question>> \o q \o <<tail>>

\* C20: within a chat call the stages run in the order enhance, embed,
\* index query, prompt composition, generation: the text embedded is
\* enhance_query(query), never the raw query; the prompt is composed from
\* the raw query and exactly the documents the index returned; the
\* Generator is invoked once, after retrieval has returned.
C20_StageOrder ==
    /\ ch.pc \in {"embedded", "retrieved"} \/ (ch.pc = "done" /\ ch.outcome = "answered")
          => /\ ch.enhanced = enhance_query(Tables, ch.query).result
             /\ ch.embedding = Embed(ch.enhanced)
    /\ ch.pc = "embedded" => ch.log = <<"enhance", "embed">>
    /\ ch.pc = "retrieved"
          => /\ ch.log = <<"enhance", "embed", "query">>
             /\ ch.prompt = <<>> /\ ch.answer = <<>>
    /\ ch.pc = "retrieved" \/ (ch.pc = "done" /\ ch.outcome = "answered")
          => /\ ch.results = retrieve_results(ch.raw)
             /\ \A i \in 1..Len(ch.raw.documents) :
                   ch.raw.distances[i] = Distance(Embed(ch.raw.documents[i]), ch.embedding)
    /\ (ch.pc = "done" /\ ch.outcome = "answered")
          => /\ ch.log = <<"enhance", "embed", "query", "compose", "generate">>
             /\ ComposedFrom(ch.prompt, ch.query, ch.results)

\* a chat whose enhanced query differs from the raw one was answered from
\* two or more retrieved documents
C20_Witness ==
    /\ ch.pc = "done" /\ ch.outcome = "answered"
    /\ ch.enhanced # ch.query
    /\ Len(ch.enhanced) # Len(ch.query)
    /\ Len(ch.results) >= 2

(***************************************************************************)
(* Claims about the admissions handlers (SpecHttp)                         *)
(***************************************************************************)
AdmissionsHandlers == {"ask_admissions_question", "ask_question"}

\* C21: a request that an admissions ask endpoint serves while
\* is_rag_initialized is false is answered with status 400 and the
\* not-initialized response, and invokes neither the retriever, nor the
\* Generator, nor generate_followup_questions.
C21_NotInitializedIs400 ==
    [][(/\ http' # http
        /\ http'.handler \in AdmissionsHandlers
        /\ ~is_rag_initialized)
          => /\ http'.status = 400
             /\ http'.cause = "not_initialized"
             /\ http'.calls = NoCalls]_vars

\* ask_question has refused a request after an initialization that
\* succeeded was followed by one that failed
C21_Witness ==
    /\ http.handler = "ask_question"
    /\ http.status = 400
    /\ http.answer = <<NotInitializedContent>>
    /\ ~is_rag_initialized
    /\ vector_store_retriever # "None"

(***************************************************************************)
(* Claims about the syllabus units of a record (SpecSyllabus)              *)
(***************************************************************************)
\* the entries of a record's syllabus that are records themselves
UnitsOf(course) ==
    LET syllabus == Get(course, "syllabus", NoSyllabus)
    IN  { u \in 1..Len(syllabus.units) : syllabus.units[u].isdict }

\* C22: load_data does not fail because of a syllabus value (an entry that
\* is not a record, a syllabus that is not a sequence, topics that are not
\* all strings); every accepted course has exactly one syllabus_unit chunk
\* per entry that is a record and none for any other entry.
C22_SyllabusNeverFailsBatch ==
    ld.called =>
        /\ ~ld.raised
        /\ \A i \in 1..Len(ld.records) :
              ~skipped(ld.records[i]) =>
                Cardinality(ChunksOf(ld.records[i].metadata, "syllabus_unit"))
                    = NRecords(ld.records[i].metadata)
                        * Cardinality(UnitsOf(ld.records[i]))

(***************************************************************************)
(* Claims about the semester index (SpecLoad)                              *)
(***************************************************************************)
\* the accepted records of the load whose semester has the key, in input
\* order
AcceptedOf(key) ==
    SelectSeq(ld.records,
              LAMBDA c : ~skipped(c) /\ StrOf(metadata_of(c).semester) = key)

\* how often the text w occurs in the text t
Occurrences(w, t) == Cardinality({ i \in 1..Len(t) : StartsWith(t, i, w) })

\* the start of the line of a course in a semester summary
LineStart(c) ==
    <<"\n", "- ">> \o StrOf(c.metadata.course_code) \o <<": ">>
        \o StrOf(c.metadata.course_name) \o <<" (">>

\* C23: after load_data has returned, semester_course_map holds under each
\* semester key exactly one summary entry per accepted record of that
\* semester, in input order, every accepted record has its key, and the
\* rebuild makes exactly one semester_summary document per key, in which
\* every one of those records has exactly one line.
C23_SemesterIndex ==
    (ld.called /\ ~ld.raised) =>
        LET map == semester_course_map
            docs == semester_docs(map)
        IN  /\ \A i, j \in 1..Len(map) : map[i].key = map[j].key => i = j
            /\ \A r \in 1..Len(ld.records) :
                  ~skipped(ld.records[r])
                     => HasKey(map, StrOf(ld.records[r].metadata.semester))
            /\ \A i \in 1..Len(map) :
                  LET accepted == AcceptedOf(map[i].key)
                  IN  /\ accepted # <<>>
                      /\ map[i].val = [n \in 1..Len(accepted) |->
                                          summary_entry(accepted[n].metadata)]
            /\ Len(docs.documents) = Len(map)
            /\ \A i \in 1..Len(map) :
                  LET accepted == AcceptedOf(map[i].key)
                  IN  /\ docs.metadatas[i].chunk_type = S(<<"semester_summary">>)
                      /\ docs.metadatas[i].semester = S(map[i].key)
                      /\ \A j \in 1..Len(map) :
                            j # i => docs.metadatas[j].semester # S(map[i].key)
                      /\ Occurrences(<<"\n", "- ">>, docs.documents[i]) = Len(accepted)
                      /\ \A n \in 1..Len(accepted) :
                            Occurrences(LineStart(accepted[n]), docs.documents[i])
                               = Cardinality({ k \in 1..Len(accepted) :
                                                 accepted[k].metadata = accepted[n].metadata })

\* two accepted courses of one semester, given as the number 3 and the text
\* "3", were ingested
C23_Witness ==
    /\ ld.called /\ ~ld.raised
    /\ ld.records = <<MathsCourse, MlCourse>>
    /\ Len(semester_course_map) = 1
    /\ Len(semester_course_map[1].val) = 2

(***************************************************************************)
(* Claims about the batched insertion (SpecBatch)                          *)
(***************************************************************************)
\* the documents of the first n positions are in the collection, each once,
\* whole, with its own id, metadata and embedding, and nothing else is
InsertedUpTo(entries, d, n) ==
    /\ Len(entries) = n
    /\ \A j \in 1..n :
          /\ Cardinality({ i \in 1..Len(entries) : entries[i].id = d.ids[j] }) = 1
          /\ \E i \in 1..Len(entries) :
                /\ entries[i].id = d.ids[j]
                /\ entries[i].document = d.documents[j]
                /\ entries[i].metadata = d.metadatas[j]
                /\ entries[i].embedding = Embed(d.documents[j])

\* C24: whatever the number of documents (below, at or above a multiple of
\* batch_size), the batch loop adds every document made from chunks_data,
\* semester_course_map and faq_data exactly once, whole, under its own id
\* (the ids are pairwise distinct) with its own metadata and the embedding of
\* its own content; after each pass the collection holds exactly the
\* documents of the passes made.
C24_EveryDocumentOnce ==
    LET d == documents_of(Tables)
        total == Len(chunks_data) + Len(semester_course_map) + Len(faq_data)
    IN  /\ rb.pc = "returned"
              => /\ Len(d.documents) = total
                 /\ Len(d.ids) = total /\ Len(d.metadatas) = total
                 /\ \A i, j \in 1..total : d.ids[i] = d.ids[j] => i = j
                 /\ InsertedUpTo(store[rb.name].entries, d, total)
        /\ rb.pc = "adding"
              => InsertedUpTo(store[rb.name].entries, d, Min({rb.i, total}))

\* an insertion of exactly two full batches (two course documents and
\* 2 * batch_size - 2 FAQ documents) has returned
C24_Witness ==
    /\ rb.pc = "returned"
    /\ Len(store[rb.name].entries) = 2 * batch_size
    /\ Len(faq_data) < 2 * batch_size

(***************************************************************************)
(* Claims about initialize_rag_chain (SpecAdmissions)                      *)
(***************************************************************************)
\* C25: after any sequence of initialize_rag_chain calls,
\* is_rag_initialized is true only if vector_store_retriever is set, and a
\* call that failed (the knowledge-base file is missing, or an exception
\* was raised) has left is_rag_initialized false.
C25_InitializedOnlyWithRetriever ==
    /\ is_rag_initialized => vector_store_retriever # "None"
    /\ irc \in {"missing_knowledge_base", "exception"} => ~is_rag_initialized
    /\ irc = "not_called" => ~is_rag_initialized

\* a call found the knowledge base missing after an earlier call had
\* succeeded
C25_Witness ==
    /\ irc = "missing_knowledge_base"
    /\ vector_store_retriever = "retriever"
    /\ ~is_rag_initialized

(***************************************************************************)
(* Claims about the chatbot cache (SpecHttp)                               *)
(***************************************************************************)
\* the causes of a response to a request whose setup_enhanced_chatbot raised
SetupFailures == {"missing_dataset", "setup_failed"}

\* the chatbot has loaded its data file and its collection holds every
\* document made from its tables
FullyPopulated(st, chatbot) ==
    /\ HasKey(DataFiles, chatbot.path)
    /\ Live(st, chatbot.collection)
    /\ SameEntries(st[chatbot.collection.name].entries, documents_of(chatbot.tables))

\* C26: an entry appears in course_chatbots only in a course-chat request
\* whose setup_enhanced_chatbot returned, with the collection fully
\* populated, and it is the only entry that changes; a request whose setup
\* failed leaves course_chatbots without the key, and a request made while
\* its key is cached keeps the cached chatbot and neither deletes nor
\* rebuilds its collection.
C26_CacheOnlyAfterSetup ==
    [][ /\ \A i \in 1..Len(course_chatbots') :
              ~HasKey(course_chatbots, course_chatbots'[i].key)
                 => /\ http'.handler = "handle_course_chat"
                    /\ http'.key = course_chatbots'[i].key
                    /\ http'.cause \notin SetupFailures
                    /\ FullyPopulated(store', course_chatbots'[i].val)
                    /\ course_chatbots' = Append(course_chatbots, course_chatbots'[i])
        /\ (http'.handler = "handle_course_chat" /\ http'.cause \in SetupFailures)
              => /\ ~HasKey(course_chatbots', http'.key)
                 /\ (http' # http => course_chatbots' = course_chatbots)
        /\ http'.handler = "handle_course_chat"
              => \A i \in 1..Len(course_chatbots) :
                    LET name == course_chatbots[i].val.collection.name
                    IN  /\ HasKey(course_chatbots', course_chatbots[i].key)
                        /\ Lookup(course_chatbots', course_chatbots[i].key)
                              = course_chatbots[i].val
                        /\ store'[name] = store[name] ]_vars

\* a request was answered from the cache, by a chatbot whose collection was
\* the second one the process created
C26_Witness ==
    /\ http.handler = "handle_course_chat"
    /\ http.status = 200
    /\ ~http.touched
    /\ HasKey(course_chatbots, http.key)
    /\ store[Lookup(course_chatbots, http.key).collection.name].uid = 2

(***************************************************************************)
(* Claims about the reference tables (SpecEnhance)                         *)
(***************************************************************************)
\* C27: after load_data has returned, every key of course_details is the
\* course code of a record that passed the skip check and has an entry in
\* semester_course_map, and the course whose name enhance_query appends for
\* a course code found in the query has chunks.
C27_TablesAgreeWithChunks ==
    /\ (ld.called /\ ~ld.raised) =>
          \A i \in 1..Len(course_details) :
             \E r \in 1..Len(ld.records) :
                /\ ld.records[r].metadata.course_code = course_details[i].key
                /\ ~skipped(ld.records[r])
                /\ HasEntryOf(ld.records[r])
    /\ (eq.called /\ ~eq.raised /\ CodeRuleFires) =>
          HasChunkOf(Lookup(course_details, S(code_search(upper(eq.query)).group)))
====
